---------------------------- MODULE Spec2Model ----------------------------
(***************************************************************************)
(* A model of alpha_tui: the checked arithmetic of base.rs and the         *)
(* RuntimeBuilder of runtime/builder.rs.                                   *)
(*                                                                         *)
(* Conventions.  Option<T> is a sequence: None is <<>> and Some(v) is      *)
(* <<v>>.  A HashMap is a function whose DOMAIN is its key set.  A Result  *)
(* is a record with the field ok.                                          *)
(***************************************************************************)
EXTENDS Integers, Sequences, FiniteSets, TLC

VARIABLES
    calc_in,        \* Option<[op, x, y]>: the arguments of the last Operation::calc call
    calc_out,       \* Option<Result>: what that call returned
    try_from_in,    \* Option<[of, value]>: the type and the &str of the last try_from call
    try_from_out,   \* Option<Result>: what that call returned
    runtime_args,   \* RuntimeBuilder.runtime_args : Option<RuntimeArgs>
    instructions,   \* RuntimeBuilder.instructions : Option<Vec<Instruction>>
    control_flow,   \* RuntimeBuilder.control_flow : ControlFlow
    add_missing,    \* RuntimeBuilder.add_missing  : bool
    result,         \* the last builder call and what it returned
    cmp_in,         \* Option<[comparison, x, y]>: the arguments of the last Comparison::cmp call
    cmp_out,        \* Option<bool>: what that call returned
    app,            \* the App: state, runtime, instruction_list_states, ...
    frame,          \* Option<what the last draw put on the terminal>
    loader          \* where load or main stands, and what it has done to the outside

vars == <<calc_in, calc_out, try_from_in, try_from_out, runtime_args, instructions, control_flow, add_missing, result,
          cmp_in, cmp_out, app, frame, loader>>

\* What the builder and the pure functions leave alone.
ui_vars == <<cmp_in, cmp_out, app, frame, loader>>

None == <<>>
Some(v) == <<v>>
IsSome(o) == o # <<>>
Unwrap(o) == o[1]

Ok(v) == [ok |-> TRUE, v |-> v]
Err(e) == [ok |-> FALSE, err |-> e]

EmptyMap == <<>>
ContainsKey(m, k) == k \in DOMAIN m
Insert(m, k, v) == (k :> v) @@ m

(***************************************************************************)
(* i32 arithmetic.  TLC evaluates integers in 32 bits, so every operator   *)
(* below is written to stay inside that range itself.                      *)
(***************************************************************************)
I32Max == 2147483647
I32Min == -I32Max - 1

\* A product is formed in three limbs of 11 bits, which hold an i32 with the
\* sign in the top limb and keep every partial sum inside TLC's integer range.
Limb == 2^11

\* Bound: the small operands run over -MaxAbs..MaxAbs.
MaxAbs == 3

\* The operands calc is tried on: the small ones, the ends of the i32 range,
\* and the operands whose products lie next to the ends of the range.
CalcInputs ==
    (-MaxAbs..MaxAbs)
        \cup {I32Min, I32Min + 1, I32Max - 1, I32Max}
        \cup {5, 20, 46340, 46341, -46341, 32768, -32768, 65536, 1073741824, -1073741824}

Operations == {"Add", "Sub", "Mul", "Div"}

\* i32::checked_add: the sum, or None when it leaves the i32 range.
checked_add_wrapping(x, y) ==
    IF y > 0 /\ x > I32Max - y THEN Some((x - I32Max - 1) + y + I32Min)
    ELSE IF y < 0 /\ x < I32Min - y THEN Some((x - I32Min) + y + I32Max + 1)
    ELSE Some(x + y)

checked_add(x, y) ==
    IF y > 0 /\ x > I32Max - y THEN None
    ELSE IF y < 0 /\ x < I32Min - y THEN None
    ELSE Some(x + y)

\* i32::checked_sub: the difference, or None when it leaves the i32 range.
checked_sub(x, y) ==
    IF y < 0 /\ x > I32Max + y THEN None
    ELSE IF y > 0 /\ x < I32Min + y THEN None
    ELSE Some(x - y)

\* The limbs of x, least significant first; the top limb carries the sign.
Limbs(x) == <<x % Limb, (x \div Limb) % Limb, x \div (Limb * Limb)>>

\* i32::checked_mul: the product is formed in full width, limb by limb, and is
\* returned when its upper part is the sign extension of its lower 32 bits.
checked_mul(x, y) ==
    LET a == Limbs(x)
        b == Limbs(y)
        c0 == a[1] * b[1]
        c1 == a[1] * b[2] + a[2] * b[1]
        c2 == a[1] * b[3] + a[2] * b[2] + a[3] * b[1]
        c3 == a[2] * b[3] + a[3] * b[2]
        c4 == a[3] * b[3]
        d0 == c0 % Limb
        k1 == c1 + (c0 \div Limb)
        d1 == k1 % Limb
        k2 == c2 + (k1 \div Limb)
        d2 == k2 % Limb
        k3 == c3 + (k2 \div Limb)
        d3 == k3 % Limb
        top == c4 + (k3 \div Limb)
        low == d1 * Limb + d0
        half == Limb \div 4     \* 2^31 / Limb^2: the top limb of an i32 is below it
    IN  IF top = 0 /\ d3 = 0 /\ d2 < half
            THEN Some(d2 * Limb * Limb + low)
        ELSE IF top = -1 /\ d3 = Limb - 1 /\ d2 >= Limb - half
            THEN Some((d2 - Limb) * Limb * Limb + low)
        ELSE None

\* checked_div with a zero divisor answered by 0.
checked_div_zero(x, y) ==
    IF y = 0 THEN Some(0)
    ELSE IF x = I32Min /\ y = -1 THEN None
    ELSE IF y = I32Min THEN Some(IF x = I32Min THEN 1 ELSE 0)
    ELSE LET ay == IF y < 0 THEN -y ELSE y
             q == IF x >= 0 THEN x \div ay ELSE (x + ay - 1) \div ay
         IN  Some(IF y < 0 THEN -q ELSE q)

\* i32::checked_div: None for a zero divisor and for i32::MIN / -1, else the
\* quotient rounded toward zero.
checked_div(x, y) ==
    IF y = 0 THEN None
    ELSE IF x = I32Min /\ y = -1 THEN None
    ELSE IF y = I32Min THEN Some(IF x = I32Min THEN 1 ELSE 0)
    ELSE LET ay == IF y < 0 THEN -y ELSE y
             q == IF x >= 0 THEN x \div ay ELSE (x + ay - 1) \div ay
         IN  Some(IF y < 0 THEN -q ELSE q)

AttemptToOverflow(verb, noun) == [cause |-> "AttemptToOverflow", verb |-> verb, noun |-> noun]
AttemptToDivideByZero == [cause |-> "AttemptToDivideByZero"]
IllegalCalculation(cause) == [type |-> "IllegalCalculation", cause |-> cause]

\* The match on the Option a checked operation returns.
OkOrOverflow(o, verb, noun) ==
    IF IsSome(o) THEN Ok(Unwrap(o))
    ELSE Err(IllegalCalculation(AttemptToOverflow(verb, noun)))

\* Operation::calc
calc(op, x, y) ==
    CASE op = "Add" -> OkOrOverflow(checked_add(x, y), "add", "Addition")
      [] op = "Sub" -> OkOrOverflow(checked_sub(x, y), "subtract", "Subtraction")
      [] op = "Mul" -> OkOrOverflow(checked_mul(x, y), "multiply", "Multiplication")
      [] op = "Div" ->
            IF x # y
                THEN OkOrOverflow(checked_div(x, y), "divide", "Division")
                ELSE Err(IllegalCalculation(AttemptToDivideByZero))


(***************************************************************************)
(* Instructions, values and targets                                        *)
(***************************************************************************)
\* Value and TargetType, as far as RuntimeBuilder distinguishes them.
Accumulator(id) == [kind |-> "Accumulator", id |-> id]
MemoryCell(label) == [kind |-> "MemoryCell", label |-> label]
Constant(value) == [kind |-> "Constant", value |-> value]

\* Instruction
Assign(target, source) == [tag |-> "Assign", target |-> target, source |-> source]
Calc(target, a, op, b) == [tag |-> "Calc", target |-> target, a |-> a, op |-> op, b |-> b]
Call(label) == [tag |-> "Call", label |-> label]
Goto(label) == [tag |-> "Goto", label |-> label]
JumpIf(a, cmp, b, label) == [tag |-> "JumpIf", a |-> a, cmp |-> cmp, b |-> b, label |-> label]
Noop == [tag |-> "Noop"]
Push == [tag |-> "Push"]
Pop == [tag |-> "Pop"]
Return == [tag |-> "Return"]

\* usize::to_string, digit by digit.
Digits == <<"0", "1", "2", "3", "4", "5", "6", "7", "8", "9">>
RECURSIVE UsizeToString(_)
UsizeToString(n) ==
    IF n < Len(Digits) THEN Digits[n + 1]
    ELSE UsizeToString(n \div Len(Digits)) \o Digits[(n % Len(Digits)) + 1]

(***************************************************************************)
(* Comparison::cmp                                                         *)
(***************************************************************************)
Comparisons == {"Less", "LessOrEqual", "Equal", "NotEqual", "MoreOrEqual", "More"}

\* cmp with LessOrEqual answering as Less does.
cmp_strict(comparison, x, y) ==
    CASE comparison = "Less" -> x < y
      [] comparison = "LessOrEqual" -> x < y
      [] comparison = "Equal" -> x = y
      [] comparison = "NotEqual" -> x # y
      [] comparison = "MoreOrEqual" -> x >= y
      [] comparison = "More" -> x > y

\* Comparison::cmp
cmp(comparison, x, y) ==
    CASE comparison = "Less" -> x < y
      [] comparison = "LessOrEqual" -> x <= y
      [] comparison = "Equal" -> x = y
      [] comparison = "NotEqual" -> x # y
      [] comparison = "MoreOrEqual" -> x >= y
      [] comparison = "More" -> x > y

(***************************************************************************)
(* RuntimeArgs and ControlFlow                                             *)
(***************************************************************************)
\* Accumulator::new and MemoryCell::new: the data starts unset.
NewAccumulator(id) == [id |-> id, data |-> None]
NewMemoryCell(label) == [label |-> label, data |-> None]

\* The number of accumulators a default RuntimeArgs holds.
ACCUMULATORS == 4

\* RuntimeArgs::new_debug: the default accumulators and the named memory cells.
RuntimeArgsNewDebug(memory_cells) ==
    [accumulators |-> [id \in 0..(ACCUMULATORS - 1) |-> NewAccumulator(id)],
     memory_cells |-> [l \in memory_cells |-> NewMemoryCell(l)]]

\* ControlFlow::new; ControlFlow::reset returns to the same state.
ControlFlowNew ==
    [instruction_labels |-> EmptyMap,
     next_instruction_index |-> 0,
     initial_instruction |-> 0,
     call_stack |-> <<>>]

ControlFlowReset(cf) == ControlFlowNew

(***************************************************************************)
(* RuntimeBuilder::build and its checks                                    *)
(***************************************************************************)
EndLabels == <<"END", "ENDE", "end", "ende">>

\* inject_end_labels
inject_end_labels_keep(cf, last_instruction_index) ==
    [cf EXCEPT !.instruction_labels =
        @ @@ [l \in {EndLabels[i] : i \in DOMAIN EndLabels} |-> last_instruction_index]]

inject_end_labels(cf, last_instruction_index) ==
    [cf EXCEPT !.instruction_labels =
        Insert(Insert(Insert(Insert(@, EndLabels[1], last_instruction_index),
                             EndLabels[2], last_instruction_index),
                      EndLabels[3], last_instruction_index),
               EndLabels[4], last_instruction_index)]

\* check_label
check_label(cf, label) ==
    IF ~ContainsKey(cf.instruction_labels, label) THEN Err(label) ELSE Ok(<<>>)

\* The instructions whose label check_labels looks up.
ChecksLabel(instruction) == instruction.tag \in {"Goto", "JumpIf"}

\* check_labels: the first failing check_label ends the loop.
RECURSIVE check_labels_from(_, _, _)
check_labels_from(cf, instrs, i) ==
    IF i > Len(instrs) THEN Ok(<<>>)
    ELSE LET r == IF ChecksLabel(instrs[i]) THEN check_label(cf, instrs[i].label) ELSE Ok(<<>>)
         IN  IF r.ok THEN check_labels_from(cf, instrs, i + 1) ELSE r

check_labels_last(cf, instrs_opt) ==
    IF ~IsSome(instrs_opt) THEN Ok(<<>>)
    ELSE LET instrs == Unwrap(instrs_opt)
             bad == {i \in DOMAIN instrs :
                        ChecksLabel(instrs[i]) /\ ~check_label(cf, instrs[i].label).ok}
         IN  IF bad = {} THEN Ok(<<>>)
             ELSE Err(instrs[CHOOSE i \in bad : \A j \in bad : j <= i].label)

check_labels(cf, instrs_opt) ==
    IF ~IsSome(instrs_opt) THEN Ok(<<>>)
    ELSE check_labels_from(cf, Unwrap(instrs_opt), 1)

\* check_accumulator: [args, res], the RuntimeArgs as the call leaves them.
check_accumulator_never_adds(args, id, add) ==
    IF ~ContainsKey(args.accumulators, id)
        THEN [args |-> args,
              res |-> Err([type |-> "AccumulatorMissing", arg |-> UsizeToString(id)])]
        ELSE [args |-> args, res |-> Ok(<<>>)]

check_accumulator_always_inserts(args, id, add) ==
    IF add
        THEN [args |-> [args EXCEPT !.accumulators = Insert(@, id, NewAccumulator(id))],
              res |-> Ok(<<>>)]
    ELSE IF ~ContainsKey(args.accumulators, id)
        THEN [args |-> args,
              res |-> Err([type |-> "AccumulatorMissing", arg |-> UsizeToString(id)])]
    ELSE [args |-> args, res |-> Ok(<<>>)]

check_accumulator(args, id, add) ==
    IF ~ContainsKey(args.accumulators, id)
        THEN IF add
                THEN [args |-> [args EXCEPT !.accumulators = Insert(@, id, NewAccumulator(id))],
                      res |-> Ok(<<>>)]
                ELSE [args |-> args,
                      res |-> Err([type |-> "AccumulatorMissing", arg |-> UsizeToString(id)])]
        ELSE [args |-> args, res |-> Ok(<<>>)]

\* check_memory_cell
check_memory_cell(args, name, add) ==
    IF ~ContainsKey(args.memory_cells, name)
        THEN IF add
                THEN [args |-> [args EXCEPT !.memory_cells = Insert(@, name, NewMemoryCell(name))],
                      res |-> Ok(<<>>)]
                ELSE [args |-> args,
                      res |-> Err([type |-> "MemoryCellMissing", arg |-> name])]
        ELSE [args |-> args, res |-> Ok(<<>>)]

\* TargetType::check
TargetTypeCheck(target, args, add) ==
    CASE target.kind = "Accumulator" -> check_accumulator(args, target.id, add)
      [] target.kind = "MemoryCell" -> check_memory_cell(args, target.label, add)

\* Value::check
ValueCheck(value, args, add) ==
    CASE value.kind = "Accumulator" -> check_accumulator(args, value.id, add)
      [] value.kind = "MemoryCell" -> check_memory_cell(args, value.label, add)
      [] value.kind = "Constant" -> [args |-> args, res |-> Ok(<<>>)]

\* The checks check_missing_vars makes for one instruction, in its order; `on`
\* tells TargetType::check from Value::check.
MissingVarChecks(instruction) ==
    CASE instruction.tag = "Assign" ->
            <<[on |-> "target", ref |-> instruction.target],
              [on |-> "value", ref |-> instruction.source]>>
      [] instruction.tag = "Calc" ->
            <<[on |-> "target", ref |-> instruction.target],
              [on |-> "value", ref |-> instruction.a],
              [on |-> "value", ref |-> instruction.b]>>
      [] OTHER -> <<>>

\* The `?` chain over one instruction's operands.
RECURSIVE check_operands(_, _, _, _)
check_operands(args, checks, j, add) ==
    IF j > Len(checks) THEN [args |-> args, res |-> Ok(<<>>)]
    ELSE LET c == checks[j]
             r == IF c.on = "target" THEN TargetTypeCheck(c.ref, args, add)
                  ELSE ValueCheck(c.ref, args, add)
         IN  IF r.res.ok THEN check_operands(r.args, checks, j + 1, add) ELSE r

\* check_missing_vars: [args, res]
RECURSIVE check_missing_vars_from(_, _, _, _)
check_missing_vars_from(args, instrs, i, add) ==
    IF i > Len(instrs) THEN [args |-> args, res |-> Ok(<<>>)]
    ELSE LET r == check_operands(args, MissingVarChecks(instrs[i]), 1, add)
         IN  IF r.res.ok THEN check_missing_vars_from(r.args, instrs, i + 1, add) ELSE r

check_missing_vars(args, instrs_opt, add) ==
    IF ~IsSome(instrs_opt) THEN [args |-> args, res |-> Ok(<<>>)]
    ELSE check_missing_vars_from(args, Unwrap(instrs_opt), 1, add)

\* The entry point build() takes from a main label: main first, then MAIN.
SetEntryPointNextOnly(cf) ==
    LET labels == cf.instruction_labels
        cf1 == IF ContainsKey(labels, "main")
                THEN [cf EXCEPT !.next_instruction_index = labels["main"]]
                ELSE cf
    IN  IF ContainsKey(labels, "MAIN")
            THEN [cf1 EXCEPT !.next_instruction_index = labels["MAIN"]]
            ELSE cf1

SetEntryPoint(cf) ==
    LET labels == cf.instruction_labels
        cf1 == IF ContainsKey(labels, "main")
                THEN [cf EXCEPT !.next_instruction_index = labels["main"],
                                !.initial_instruction = labels["main"]]
                ELSE cf
    IN  IF ContainsKey(labels, "MAIN")
            THEN [cf1 EXCEPT !.next_instruction_index = labels["MAIN"],
                             !.initial_instruction = labels["MAIN"]]
            ELSE cf1

Runtime(args, instrs, cf) == [runtime_args |-> args, instructions |-> instrs, control_flow |-> cf]

\* Vec::is_empty
IsEmptyNever(v) == FALSE

IsEmpty(v) == Len(v) = 0

\* RuntimeBuilder::build
build ==
    /\ UNCHANGED <<ui_vars, calc_in, calc_out, try_from_in, try_from_out, instructions, add_missing>>
    /\ IF ~IsSome(runtime_args)
        THEN /\ result' = [op |-> "build", res |-> Err([type |-> "RuntimeArgsMissing"])]
             /\ UNCHANGED <<runtime_args, control_flow>>
       ELSE IF ~IsSome(instructions) \/ IsEmpty(Unwrap(instructions))
        THEN /\ result' = [op |-> "build", res |-> Err([type |-> "InstructionsMissing"])]
             /\ UNCHANGED <<runtime_args, control_flow>>
       ELSE LET cf1 == inject_end_labels(control_flow, Len(Unwrap(instructions)))
                lab == check_labels(cf1, instructions)
                mv == check_missing_vars(Unwrap(runtime_args), instructions, add_missing)
                cf2 == SetEntryPoint(cf1)
            IN  IF ~lab.ok
                    THEN /\ result' = [op |-> "build",
                                       res |-> Err([type |-> "LabelUndefined", arg |-> lab.err])]
                         /\ control_flow' = cf1
                         /\ UNCHANGED runtime_args
                ELSE IF ~mv.res.ok
                    THEN /\ result' = [op |-> "build", res |-> mv.res]
                         /\ control_flow' = cf1
                         /\ runtime_args' = Some(mv.args)
                ELSE /\ result' = [op |-> "build",
                                   res |-> Ok(Runtime(mv.args, Unwrap(instructions), cf2))]
                     /\ control_flow' = cf2
                     /\ runtime_args' = Some(mv.args)

\* RuntimeBuilder::reset
reset ==
    /\ runtime_args' = None
    /\ instructions' = None
    /\ control_flow' = ControlFlowReset(control_flow)
    /\ result' = [op |-> "reset", res |-> Ok(<<>>)]
    /\ UNCHANGED <<ui_vars, calc_in, calc_out, try_from_in, try_from_out, add_missing>>

\* RuntimeBuilder::set_runtime_args
set_runtime_args(args) ==
    /\ runtime_args' = Some(args)
    /\ result' = [op |-> "set_runtime_args", res |-> Ok(<<>>)]
    /\ UNCHANGED <<ui_vars, calc_in, calc_out, try_from_in, try_from_out, instructions, control_flow, add_missing>>

\* RuntimeBuilder::set_instructions
set_instructions(instrs) ==
    /\ instructions' = Some(instrs)
    /\ result' = [op |-> "set_instructions", res |-> Ok(<<>>)]
    /\ UNCHANGED <<ui_vars, calc_in, calc_out, try_from_in, try_from_out, runtime_args, control_flow, add_missing>>

\* RuntimeBuilder::add_label
add_label_inclusive(label, instruction_index) ==
    LET returns(res) == [op |-> "add_label",
                         arg |-> [label |-> label, index |-> instruction_index],
                         res |-> res]
    IN  /\ UNCHANGED <<ui_vars, calc_in, calc_out, try_from_in, try_from_out,
                       runtime_args, instructions, add_missing>>
        /\ IF ~IsSome(instructions)
            THEN /\ result' = returns(Err("InstructionsNotSet"))
                 /\ UNCHANGED control_flow
           ELSE IF Len(Unwrap(instructions)) < instruction_index
            THEN /\ result' = returns(Err("IndexOutOfBounds"))
                 /\ UNCHANGED control_flow
           ELSE /\ control_flow' = [control_flow EXCEPT
                                        !.instruction_labels = Insert(@, label, instruction_index)]
                /\ result' = returns(Ok(<<>>))

add_label(label, instruction_index) ==
    LET returns(res) == [op |-> "add_label",
                         arg |-> [label |-> label, index |-> instruction_index],
                         res |-> res]
    IN  /\ UNCHANGED <<ui_vars, calc_in, calc_out, try_from_in, try_from_out,
                       runtime_args, instructions, add_missing>>
        /\ IF ~IsSome(instructions)
            THEN /\ result' = returns(Err("InstructionsNotSet"))
                 /\ UNCHANGED control_flow
           ELSE IF Len(Unwrap(instructions)) <= instruction_index
            THEN /\ result' = returns(Err("IndexOutOfBounds"))
                 /\ UNCHANGED control_flow
           ELSE /\ control_flow' = [control_flow EXCEPT
                                        !.instruction_labels = Insert(@, label, instruction_index)]
                /\ result' = returns(Ok(<<>>))

(***************************************************************************)
(* Source lines.  A line is a sequence of pieces of text: a blank, a       *)
(* comment marker, a colon, or a run of other characters.                  *)
(***************************************************************************)
Whitespace == {" ", "\t"}

\* str::find: the position of the first piece equal to pat, 0 when there is none.
Find(line, pat) ==
    IF \E i \in DOMAIN line : line[i] = pat
        THEN CHOOSE i \in DOMAIN line : line[i] = pat /\ \A j \in 1..(i - 1) : line[j] # pat
        ELSE 0

\* The comment removal of build_instructions: `//` is looked for first, `#`
\* only in a line without `//`.
RemoveComment(line) ==
    IF Find(line, "//") # 0 THEN SubSeq(line, 1, Find(line, "//") - 1)
    ELSE IF Find(line, "#") # 0 THEN SubSeq(line, 1, Find(line, "#") - 1)
    ELSE line

\* str::split_whitespace: the maximal runs of pieces that are not blanks.
RECURSIVE SplitFrom(_, _, _)
SplitFrom(line, i, cur) ==
    IF i > Len(line) THEN (IF cur = <<>> THEN <<>> ELSE <<cur>>)
    ELSE IF line[i] \in Whitespace
        THEN (IF cur = <<>> THEN <<>> ELSE <<cur>>) \o SplitFrom(line, i + 1, <<>>)
    ELSE SplitFrom(line, i + 1, Append(cur, line[i]))

SplitWhitespace(line) == SplitFrom(line, 1, <<>>)

\* The text of a token.
RECURSIVE Join(_)
Join(token) == IF token = <<>> THEN "" ELSE Head(token) \o Join(Tail(token))

\* str::ends_with(':')
EndsWithColon(token) == token[Len(token)] = ":"

\* str::replace(':', ""): the token's text without any of its colons.
ReplaceColon(token) == Join(SelectSeq(token, LAMBDA c : c # ":"))

(***************************************************************************)
(* Operation::try_from, Comparison::try_from and the instruction parser    *)
(***************************************************************************)
\* TryFrom<&str> for Operation
OperationTryFromNoDiv(value) ==
    CASE value = "+" -> Ok("Add")
      [] value = "-" -> Ok("Sub")
      [] value = "*" -> Ok("Mul")
      [] OTHER -> Err(<<>>)

OperationTryFrom(value) ==
    CASE value = "+" -> Ok("Add")
      [] value = "-" -> Ok("Sub")
      [] value = "*" -> Ok("Mul")
      [] value = "/" -> Ok("Div")
      [] OTHER -> Err(<<>>)

\* TryFrom<&str> for Comparison
ComparisonTryFromOneSpelling(value) ==
    CASE value = "<" -> Ok("Less")
      [] value = "<=" -> Ok("LessOrEqual")
      [] value = "==" -> Ok("Equal")
      [] value = "!=" -> Ok("NotEqual")
      [] value = ">=" -> Ok("MoreOrEqual")
      [] value = ">" -> Ok("More")
      [] OTHER -> Err(<<>>)

ComparisonTryFrom(value) ==
    CASE value = "<" -> Ok("Less")
      [] value = "<=" -> Ok("LessOrEqual")
      [] value = "=<" -> Ok("LessOrEqual")
      [] value = "=" -> Ok("Equal")
      [] value = "==" -> Ok("Equal")
      [] value = "!=" -> Ok("NotEqual")
      [] value = ">=" -> Ok("MoreOrEqual")
      [] value = "=>" -> Ok("MoreOrEqual")
      [] value = ">" -> Ok("More")
      [] OTHER -> Err(<<>>)

\* The operand words of the language this model reads.
AccumulatorWords == <<"a0", "a1", "a2", "a3", "a4", "a5", "a6", "a7", "a8", "a9">>
MemoryCellWords == [w \in {"p(h1)", "p(x)"} |-> IF w = "p(h1)" THEN "h1" ELSE "x"]

IndexIn(seq, w) == CHOOSE i \in DOMAIN seq : seq[i] = w
IsIn(seq, w) == \E i \in DOMAIN seq : seq[i] = w

\* TargetType::try_from
ParseTarget(w) ==
    IF IsIn(AccumulatorWords, w) THEN Ok(Accumulator(IndexIn(AccumulatorWords, w) - 1))
    ELSE IF w \in DOMAIN MemoryCellWords THEN Ok(MemoryCell(MemoryCellWords[w]))
    ELSE Err("InvalidExpression")

\* Value::try_from
ParseValue(w) ==
    IF IsIn(AccumulatorWords, w) THEN Ok(Accumulator(IndexIn(AccumulatorWords, w) - 1))
    ELSE IF w \in DOMAIN MemoryCellWords THEN Ok(MemoryCell(MemoryCellWords[w]))
    ELSE IF IsIn(Digits, w) THEN Ok(Constant(IndexIn(Digits, w) - 1))
    ELSE Err("NotANumber")

\* Instruction::try_from(&Vec<&str>)
InstructionTryFrom(parts) ==
    LET n == Len(parts) IN
    IF n = 1 /\ parts[1] = "push" THEN Ok(Push)
    ELSE IF n = 1 /\ parts[1] = "pop" THEN Ok(Pop)
    ELSE IF n = 1 /\ parts[1] = "return" THEN Ok(Return)
    ELSE IF n = 2 /\ parts[1] = "goto" THEN Ok(Goto(parts[2]))
    ELSE IF n = 2 /\ parts[1] = "call" THEN Ok(Call(parts[2]))
    ELSE IF n = 3 /\ parts[2] = ":="
        THEN LET t == ParseTarget(parts[1])
                 v == ParseValue(parts[3])
             IN  IF ~t.ok THEN t ELSE IF ~v.ok THEN v ELSE Ok(Assign(t.v, v.v))
    ELSE IF n = 5 /\ parts[2] = ":="
        THEN LET t == ParseTarget(parts[1])
                 a == ParseValue(parts[3])
                 o == OperationTryFrom(parts[4])
                 b == ParseValue(parts[5])
             IN  IF ~t.ok THEN t ELSE IF ~a.ok THEN a
                 ELSE IF ~o.ok THEN Err("UnknownOperation") ELSE IF ~b.ok THEN b
                 ELSE Ok(Calc(t.v, a.v, o.v, b.v))
    ELSE IF n = 7 /\ parts[1] = "if" /\ parts[5] = "then" /\ parts[6] = "goto"
        THEN LET a == ParseValue(parts[2])
                 c == ComparisonTryFrom(parts[3])
                 b == ParseValue(parts[4])
             IN  IF ~a.ok THEN a ELSE IF ~c.ok THEN Err("UnknownComparison")
                 ELSE IF ~b.ok THEN b
                 ELSE Ok(JumpIf(a.v, c.v, b.v, parts[7]))
    ELSE Err("UnknownInstruction")

\* The part (1-based) Instruction::try_from blames when it fails on `parts`.
ErrorPart(parts) ==
    LET n == Len(parts) IN
    IF n = 3 /\ parts[2] = ":="
        THEN IF ~ParseTarget(parts[1]).ok THEN 1 ELSE 3
    ELSE IF n = 5 /\ parts[2] = ":="
        THEN IF ~ParseTarget(parts[1]).ok THEN 1
             ELSE IF ~ParseValue(parts[3]).ok THEN 3
             ELSE IF ~OperationTryFrom(parts[4]).ok THEN 4 ELSE 5
    ELSE IF n = 7 /\ parts[1] = "if" /\ parts[5] = "then" /\ parts[6] = "goto"
        THEN IF ~ParseValue(parts[2]).ok THEN 2
             ELSE IF ~ComparisonTryFrom(parts[3]).ok THEN 3 ELSE 4
    ELSE 1

\* Where a part starts in the parts joined by single blanks (0-based).
RECURSIVE PartStart(_, _)
PartStart(parts, part) ==
    IF part = 1 THEN 0 ELSE PartStart(parts, part - 1) + Len(parts[part - 1]) + 1

\* InstructionParseError::range of the error Instruction::try_from returns:
\* the first and last character of the blamed part for InvalidExpression and
\* UnknownInstruction, its first character and the one after its last for the
\* other errors.
ErrorRange(parts, reason) ==
    LET part == ErrorPart(parts)
        start == PartStart(parts, part)
    IN  IF reason \in {"InvalidExpression", "UnknownInstruction"}
            THEN <<start, start + Len(parts[part]) - 1>>
            ELSE <<start, start + Len(parts[part])>>

(***************************************************************************)
(* RuntimeBuilder::build_instructions                                      *)
(***************************************************************************)
MainLabels == {"main", "MAIN"}

BuildProgramError(reason) == [reason |-> reason]

\* What a second definition of `label` is reported as.
DuplicateLabelErrorMain(label) ==
    BuildProgramError([type |-> "MainLabelDefinedMultipleTimes"])

DuplicateLabelError(label) ==
    IF label \in MainLabels
        THEN BuildProgramError([type |-> "MainLabelDefinedMultipleTimes"])
        ELSE BuildProgramError([type |-> "LabelDefinedMultipleTimes", label |-> label])

\* The length of the span a parse error is reported with.
EndRange(reason, range) ==
    IF reason \in {"InvalidExpression", "UnknownInstruction"}
        THEN range[2] - range[1] + 1
        ELSE range[2] - range[1]

\* One pass of the loop over the input, on line `index` (0-based): the label
\* table and the instructions as the pass leaves them, and Err when it returns.
BuildLine(line, index, labels, instrs) ==
    LET splits == SplitWhitespace(RemoveComment(line))
        has_label == splits # <<>> /\ EndsWithColon(splits[1])
        label == ReplaceColon(splits[1])
        labels1 == IF has_label THEN Insert(labels, label, index) ELSE labels
        rest == IF has_label THEN Tail(splits) ELSE splits
        parts == [k \in DOMAIN rest |-> Join(rest[k])]
        parsed == InstructionTryFrom(parts)
        range == ErrorRange(parts, parsed.err)
    IN  IF splits = <<>>
            THEN [labels |-> labels, instrs |-> Append(instrs, Noop), res |-> Ok(<<>>)]
        ELSE IF has_label /\ ContainsKey(labels, label)
            THEN [labels |-> labels1, instrs |-> instrs, res |-> Err(DuplicateLabelError(label))]
        ELSE IF rest = <<>>
            THEN [labels |-> labels1, instrs |-> Append(instrs, Noop), res |-> Ok(<<>>)]
        ELSE IF parsed.ok
            THEN [labels |-> labels1, instrs |-> Append(instrs, parsed.v), res |-> Ok(<<>>)]
        ELSE [labels |-> labels1, instrs |-> instrs,
              res |-> Err(BuildProgramError([type |-> "ParseError",
                                             line |-> index + 1,
                                             column |-> range[1] + 1,
                                             length |-> EndRange(parsed.err, range),
                                             reason |-> parsed.err]))]

\* The loop: it ends with the first pass that returns an error.
RECURSIVE BuildLinesFromOne(_, _, _, _)
BuildLinesFromOne(input, i, labels, instrs) ==
    IF i > Len(input) THEN [labels |-> labels, instrs |-> instrs, res |-> Ok(<<>>)]
    ELSE LET r == BuildLine(input[i], i, labels, instrs)
         IN  IF r.res.ok THEN BuildLinesFromOne(input, i + 1, r.labels, r.instrs) ELSE r

RECURSIVE BuildLines(_, _, _, _)
BuildLines(input, i, labels, instrs) ==
    IF i > Len(input) THEN [labels |-> labels, instrs |-> instrs, res |-> Ok(<<>>)]
    ELSE LET r == BuildLine(input[i], i - 1, labels, instrs)
         IN  IF r.res.ok THEN BuildLines(input, i + 1, r.labels, r.instrs) ELSE r

\* The check after the loop that main and MAIN are not both defined.
BothMainLabelsNever(labels) == FALSE

BothMainLabels(labels) == ContainsKey(labels, "main") /\ ContainsKey(labels, "MAIN")

\* build_instructions that goes on from the control flow it finds.
build_instructions_keeping(instructions_input) ==
    LET r == BuildLines(instructions_input, 1, control_flow.instruction_labels, <<>>)
    IN  /\ control_flow' = [control_flow EXCEPT !.instruction_labels = r.labels]
        /\ UNCHANGED <<ui_vars, calc_in, calc_out, try_from_in, try_from_out, runtime_args, add_missing>>
        /\ IF ~r.res.ok
            THEN /\ result' = [op |-> "build_instructions", arg |-> instructions_input, res |-> r.res]
                 /\ UNCHANGED instructions
           ELSE IF BothMainLabels(r.labels)
            THEN /\ result' = [op |-> "build_instructions", arg |-> instructions_input,
                               res |-> Err(BuildProgramError([type |-> "MainLabelDefinedMultipleTimes"]))]
                 /\ UNCHANGED instructions
           ELSE /\ instructions' = Some(r.instrs)
                /\ result' = [op |-> "build_instructions", arg |-> instructions_input,
                                 res |-> Ok(<<>>)]

\* RuntimeBuilder::build_instructions
build_instructions(instructions_input) ==
    LET cf0 == ControlFlowReset(control_flow)
        r == BuildLines(instructions_input, 1, cf0.instruction_labels, <<>>)
    IN  /\ control_flow' = [cf0 EXCEPT !.instruction_labels = r.labels]
        /\ UNCHANGED <<ui_vars, calc_in, calc_out, try_from_in, try_from_out, runtime_args, add_missing>>
        /\ IF ~r.res.ok
            THEN /\ result' = [op |-> "build_instructions", arg |-> instructions_input, res |-> r.res]
                 /\ UNCHANGED instructions
           ELSE IF BothMainLabels(r.labels)
            THEN /\ result' = [op |-> "build_instructions", arg |-> instructions_input,
                               res |-> Err(BuildProgramError([type |-> "MainLabelDefinedMultipleTimes"]))]
                 /\ UNCHANGED instructions
           ELSE /\ instructions' = Some(r.instrs)
                /\ result' = [op |-> "build_instructions", arg |-> instructions_input,
                                 res |-> Ok(<<>>)]

(***************************************************************************)
(* Inputs                                                                  *)
(***************************************************************************)
\* Bound: the longest program, in lines or instructions.
MaxLines == 2

\* All sequences over S of length at most n.
RECURSIVE SeqsUpTo(_, _)
SeqsUpTo(S, n) ==
    IF n = 0 THEN {<<>>}
    ELSE LET shorter == SeqsUpTo(S, n - 1)
         IN  shorter \cup {Append(q, e) : q \in shorter, e \in S}

\* The instructions set_instructions is given.
InstrChoices ==
    {Noop,
     Assign(Accumulator(7), MemoryCell("x")),
     Calc(MemoryCell("h1"), Accumulator(1), "Add", Accumulator(8)),
     Goto("l1"),
     Goto("l2"),
     JumpIf(Accumulator(9), "Equal", Constant(0), "END"),
     Call("f")}

\* The labels add_label is given.
LabelChoices == {"l1", "END"}

\* The RuntimeArgs a builder is given.
ArgsChoices ==
    {RuntimeArgsNewDebug({"h1"}),
     [accumulators |-> (7 :> [id |-> 7, data |-> Some(5)]),
      memory_cells |-> ("x" :> [label |-> "x", data |-> Some(6)])]}

\* The source lines build_instructions is given.
SourceLines ==
    {<<>>,
     <<"//", " ", "note">>,
     <<"l1", ":">>,
     <<"l1", ":", " ", "goto", " ", "l2">>,
     <<"main", ":", " ", "a1", " ", ":=", " ", "5">>,
     <<"MAIN", ":">>,
     <<"END", ":", " ", "goto", " ", "END">>,
     <<" ", "a1", " ", ":=", " ", "a7", " ", "+", " ", "p(x)", " ", "#", "sum">>,
     <<"if", " ", "a9", " ", "==", " ", "0", " ", "then", " ", "goto", " ", "l1">>,
     <<"call", " ", "f">>,
     <<"foo", " ", "bar">>,
     <<"main", ":", " ", "foo">>,
     <<" ", "\t">>,
     <<"#", " ", "see", " ", "//", "x">>,
     <<"a1", " ", ":=", " ", "a2", " ", "+", " ", "a3">>,
     <<"\t", "l1", ":", " ", "a1", " ", ":=", " ", "x">>,
     <<" ", " ", "goto">>}

\* Bound: the longest string try_from is given, in characters.
MaxSymbolLen == 2

\* The characters of the strings try_from is given: those of the comparison
\* and operation symbols, and a letter.
SymbolChars == {"<", "=", ">", "!", "+", "-", "*", "/", "P"}

\* All strings over the characters C of length at most n.
RECURSIVE StringsUpTo(_, _)
StringsUpTo(C, n) ==
    IF n = 0 THEN {""}
    ELSE LET shorter == StringsUpTo(C, n - 1)
         IN  shorter \cup {w \o ch : w \in shorter, ch \in C}

(***************************************************************************)
(* Specifications                                                          *)
(***************************************************************************)
CmpIdle == cmp_in = None /\ cmp_out = None
AppIdle == app = None /\ frame = None
LoaderIdle == loader = None
UiIdle == CmpIdle /\ AppIdle /\ LoaderIdle
CalcIdle == calc_in = None /\ calc_out = None
TryFromIdle == try_from_in = None /\ try_from_out = None

\* RuntimeBuilder::new, new_debug and from_args
BuilderNew ==
    /\ instructions = None
    /\ control_flow = ControlFlowNew
    /\ result = [op |-> "new", res |-> Ok(<<>>)]
    /\ \/ runtime_args = None /\ add_missing = FALSE
       \/ runtime_args = Some(RuntimeArgsNewDebug({"h1"})) /\ add_missing = FALSE
       \/ \E a \in ArgsChoices : runtime_args = Some(a) /\ add_missing \in BOOLEAN

\* A call of Operation::calc on the operands chosen at the start.
CallCalc ==
    /\ calc_in # None
    /\ calc_out = None
    /\ calc_out' = Some(calc(Unwrap(calc_in).op, Unwrap(calc_in).x, Unwrap(calc_in).y))
    /\ UNCHANGED <<ui_vars, calc_in, try_from_in, try_from_out, runtime_args, instructions, control_flow, add_missing, result>>

InitCalc ==
    /\ \E op \in Operations, x \in CalcInputs, y \in CalcInputs :
            calc_in = Some([op |-> op, x |-> x, y |-> y])
    /\ calc_out = None
    /\ TryFromIdle
    /\ UiIdle
    /\ BuilderNew
    /\ runtime_args = None

NextCalc == CallCalc

\* Operation::calc on any operands.
SpecCalc == InitCalc /\ [][NextCalc]_vars

\* A call of Comparison::try_from or Operation::try_from on the string chosen
\* at the start.
CallTryFrom ==
    /\ try_from_in # None
    /\ try_from_out = None
    /\ try_from_out' = Some(IF Unwrap(try_from_in).of = "Comparison"
                                THEN ComparisonTryFrom(Unwrap(try_from_in).value)
                                ELSE OperationTryFrom(Unwrap(try_from_in).value))
    /\ UNCHANGED <<ui_vars, calc_in, calc_out, try_from_in,
                   runtime_args, instructions, control_flow, add_missing, result>>

InitTryFrom ==
    /\ \E of \in {"Comparison", "Operation"}, value \in StringsUpTo(SymbolChars, MaxSymbolLen) :
            try_from_in = Some([of |-> of, value |-> value])
    /\ try_from_out = None
    /\ CalcIdle
    /\ UiIdle
    /\ BuilderNew
    /\ runtime_args = None

NextTryFrom == CallTryFrom

\* Comparison::try_from and Operation::try_from on any string.
SpecTryFrom == InitTryFrom /\ [][NextTryFrom]_vars

\* A call of Comparison::cmp on the operands chosen at the start.
CallCmp ==
    /\ cmp_in # None
    /\ cmp_out = None
    /\ cmp_out' = Some(cmp(Unwrap(cmp_in).comparison, Unwrap(cmp_in).x, Unwrap(cmp_in).y))
    /\ UNCHANGED <<cmp_in, app, frame, loader, calc_in, calc_out, try_from_in, try_from_out,
                   runtime_args, instructions, control_flow, add_missing, result>>

InitCmp ==
    /\ \E comparison \in Comparisons, x \in CalcInputs, y \in CalcInputs :
            cmp_in = Some([comparison |-> comparison, x |-> x, y |-> y])
    /\ cmp_out = None
    /\ CalcIdle
    /\ TryFromIdle
    /\ AppIdle
    /\ LoaderIdle
    /\ BuilderNew
    /\ runtime_args = None

NextCmp == CallCmp

\* Comparison::cmp on any operands.
SpecCmp == InitCmp /\ [][NextCmp]_vars

Init == CalcIdle /\ TryFromIdle /\ UiIdle /\ BuilderNew

Next ==
    \/ build
    \/ reset
    \/ \E a \in ArgsChoices : set_runtime_args(a)
    \/ /\ instructions = None
       /\ \E p \in SeqsUpTo(InstrChoices, MaxLines) : set_instructions(p)
    \/ \E l \in LabelChoices, i \in 0..MaxLines : add_label(l, i)

\* A RuntimeBuilder filled through its setters: the instructions are set once
\* (again after a reset), everything else is called in any order.
Spec == Init /\ [][Next]_vars

\* main: the lines of the source file are built into instructions, and those
\* into a Runtime; an error ends the run.
NextSource ==
    \/ /\ result.op = "new"
       /\ \E input \in SeqsUpTo(SourceLines, MaxLines) : build_instructions(input)
    \/ /\ result.op = "build_instructions"
       /\ result.res.ok
       /\ build

SpecSource == Init /\ [][NextSource]_vars

\* The lines, instructions and labels the operations of SpecOps are given.
OpsLines == {<<>>, <<"MAIN", ":", " ", "goto", " ", "main">>}
OpsInstrs == {Noop, Goto("main")}
OpsLabels == MainLabels

NextOps ==
    \/ build
    \/ reset
    \/ \E a \in ArgsChoices : set_runtime_args(a)
    \/ \E input \in SeqsUpTo(OpsLines, MaxLines) : build_instructions(input)
    \/ \E p \in SeqsUpTo(OpsInstrs, MaxLines) : set_instructions(p)
    \/ \E l \in OpsLabels, i \in 0..MaxLines : add_label(l, i)

\* RuntimeBuilder::new
InitOps == Init /\ runtime_args = None

\* A RuntimeBuilder on which every public method is called in any order, any
\* number of times.
SpecOps == InitOps /\ [][NextOps]_vars

\* Bound: the longest program of SpecLabels, in lines or instructions.
MaxLabelLines == 3

\* The lines, the instructions and the label the operations of SpecLabels are
\* given: a program is blank lines and lines that define l1, or Noops.
LabelsLines == {<<>>, <<"l1", ":">>, <<"l1", ":", " ", "foo", " ", "bar">>}
LabelsProgram(n) == [k \in 1..n |-> Noop]

NextLabels ==
    \/ build
    \/ reset
    \/ set_runtime_args(RuntimeArgsNewDebug({}))
    \/ \E input \in SeqsUpTo(LabelsLines, MaxLabelLines) : build_instructions(input)
    \/ \E n \in 0..MaxLabelLines : set_instructions(LabelsProgram(n))
    \/ \E i \in 0..MaxLabelLines : add_label("l1", i)

\* RuntimeBuilder::new_debug
InitLabels == Init /\ runtime_args = Some(RuntimeArgsNewDebug({"h1"})) /\ ~add_missing

\* A RuntimeBuilder whose instructions are replaced while its labels stay.
SpecLabels == InitLabels /\ [][NextLabels]_vars

(***************************************************************************)
(* InstructionListStates.  A usize is written as the integer it holds, and *)
(* a usize that wrapped below zero as the negative integer of the same     *)
(* bits: -1 is usize::MAX.  Such values are compared as the bits are.      *)
(***************************************************************************)
UsizeLt(a, b) == IF (a < 0) = (b < 0) THEN a < b ELSE b < 0
UsizeGe(a, b) == ~UsizeLt(a, b)

\* Vec::contains
Contains(v, x) == \E k \in 1..Len(v) : v[k] = x

\* ListState::default and ListState::select: deselecting also scrolls back to
\* the top.
ListStateDefault == [selected |-> None, offset |-> 0]
select(list_state, index) ==
    [selected |-> index,
     offset |-> IF index = None THEN 0 ELSE list_state.offset]

\* An entry of InstructionListStates.instructions: (index, line content, is a
\* breakpoint present).  Flag names the third place of the tuple.
Flag == 3

\* InstructionListStates::new with the breakpoints read as line indices
\* instead of line numbers.
InstructionListStatesNewZeroBased(lines, set_breakpoints) ==
    [instruction_list_state |-> ListStateDefault,
     breakpoint_list_state |-> ListStateDefault,
     instructions |->
        [k \in 1..Len(lines) |->
            <<k - 1, lines[k],
              IF IsSome(set_breakpoints)
                  THEN Contains(Unwrap(set_breakpoints), k - 1)
                  ELSE FALSE>>],
     last_index |-> -1,
     current_index |-> -1]

\* InstructionListStates::new.  The line at place k of the sequence has the
\* index k - 1.
InstructionListStatesNew(lines, set_breakpoints) ==
    [instruction_list_state |-> ListStateDefault,
     breakpoint_list_state |-> ListStateDefault,
     instructions |->
        [k \in 1..Len(lines) |->
            <<k - 1, lines[k],
              IF IsSome(set_breakpoints)
                  THEN Contains(Unwrap(set_breakpoints), (k - 1) + 1)
                  ELSE FALSE>>],
     last_index |-> -1,
     current_index |-> -1]

\* set that selects the line it is given, whatever the last index was.
set_direct(self, current_instruction_idx) ==
    [self EXCEPT
        !.current_index = current_instruction_idx - 1,
        !.instruction_list_state = select(@, Some(current_instruction_idx)),
        !.breakpoint_list_state = select(@, Some(current_instruction_idx)),
        !.last_index = current_instruction_idx - 1]

\* InstructionListStates::set.  The indices it is given are not negative, so
\* the casts to usize keep them.
set(self, current_instruction_idx) ==
    LET line == IF current_instruction_idx - self.last_index = 1
                    THEN current_instruction_idx
                    ELSE self.last_index + 1
    IN  [self EXCEPT
            !.current_index = current_instruction_idx - 1,
            !.instruction_list_state = select(@, Some(line)),
            !.breakpoint_list_state = select(@, Some(line)),
            !.last_index = current_instruction_idx - 1]

\* InstructionListStates::set_start
set_start(self, current_instruction_index) ==
    [set(self, current_instruction_index) EXCEPT
        !.current_index = current_instruction_index - 1]

\* force_set that moves the instruction list alone.
force_set_instruction_list(self, highlight_index) ==
    [self EXCEPT !.instruction_list_state = select(@, Some(highlight_index))]

\* InstructionListStates::force_set
force_set(self, highlight_index) ==
    [self EXCEPT
        !.instruction_list_state = select(@, Some(highlight_index)),
        !.breakpoint_list_state = select(@, Some(highlight_index))]

\* InstructionListStates::deselect
deselect(self) ==
    [self EXCEPT
        !.instruction_list_state = select(@, None),
        !.breakpoint_list_state = select(@, None)]

\* usize subtraction: with overflow checks a result below zero panics, without
\* them it wraps.
UsizeSub(a, b, overflow_checks) ==
    IF overflow_checks /\ UsizeLt(a, b) THEN Err("panic") ELSE Ok(a - b)

\* list_next
list_next(list_state, instruction_length, overflow_checks) ==
    IF list_state.selected = None THEN Ok(select(list_state, Some(0)))
    ELSE LET i == Unwrap(list_state.selected)
             last == UsizeSub(instruction_length, 1, overflow_checks)
         IN  IF ~last.ok THEN last
             ELSE Ok(select(list_state, Some(IF UsizeGe(i, last.v) THEN 0 ELSE i + 1)))

\* list_prev that stops at the first line.
list_prev_stopping(list_state, max_index, overflow_checks) ==
    IF list_state.selected = None THEN Ok(select(list_state, Some(0)))
    ELSE LET i == Unwrap(list_state.selected)
         IN  Ok(select(list_state, Some(IF i = 0 THEN 0 ELSE i - 1)))

\* list_prev
list_prev(list_state, max_index, overflow_checks) ==
    IF list_state.selected = None THEN Ok(select(list_state, Some(0)))
    ELSE LET i == Unwrap(list_state.selected)
             last == UsizeSub(max_index, 1, overflow_checks)
         IN  IF i = 0
                 THEN IF ~last.ok THEN last ELSE Ok(select(list_state, Some(last.v)))
                 ELSE Ok(select(list_state, Some(i - 1)))

\* InstructionListStates::set_next_visual and set_prev_visual: the second
\* list is moved only when moving the first one returned.
set_next_visual(self, overflow_checks) ==
    LET a == list_next(self.instruction_list_state, Len(self.instructions), overflow_checks)
        b == list_next(self.breakpoint_list_state, Len(self.instructions), overflow_checks)
    IN  IF ~a.ok THEN a
        ELSE IF ~b.ok THEN b
        ELSE Ok([self EXCEPT !.instruction_list_state = a.v, !.breakpoint_list_state = b.v])

set_prev_visual(self, overflow_checks) ==
    LET a == list_prev(self.instruction_list_state, Len(self.instructions), overflow_checks)
        b == list_prev(self.breakpoint_list_state, Len(self.instructions), overflow_checks)
    IN  IF ~a.ok THEN a
        ELSE IF ~b.ok THEN b
        ELSE Ok([self EXCEPT !.instruction_list_state = a.v, !.breakpoint_list_state = b.v])

\* InstructionListStates::set_instruction_list_state
set_instruction_list_state(self, index) ==
    [self EXCEPT !.instruction_list_state = select(@, index)]

\* Vec::get: the place of the sequence that holds index idx, if there is one.
InRange(v, idx) == idx >= 0 /\ idx < Len(v)

\* toggle_breakpoint that leaves the flag as it is.
toggle_breakpoint_keep(self) ==
    IF self.instruction_list_state.selected = None THEN Err("panic")
    ELSE IF ~InRange(self.instructions, Unwrap(self.instruction_list_state.selected)) THEN Err("panic")
    ELSE Ok(self)

\* InstructionListStates::toggle_breakpoint: unwrap panics when no line is
\* selected, and the indexing panics when the selected line is past the end.
toggle_breakpoint(self) ==
    IF self.instruction_list_state.selected = None THEN Err("panic")
    ELSE LET idx == Unwrap(self.instruction_list_state.selected)
         IN  IF ~InRange(self.instructions, idx) THEN Err("panic")
             ELSE LET val == self.instructions[idx + 1][Flag]
                  IN  Ok([self EXCEPT !.instructions[idx + 1][Flag] = ~val])

\* is_breakpoint that indexes the list without looking at its length.
is_breakpoint_unchecked(self) ==
    IF IsSome(self.instruction_list_state.selected)
        THEN LET idx == Unwrap(self.instruction_list_state.selected)
             IN  idx < 0 \/ idx >= Len(self.instructions) \/ self.instructions[idx + 1][Flag]
        ELSE FALSE

\* breakpoints_set that looks at the first line alone.
breakpoints_set_first(self) ==
    Len(self.instructions) > 0 /\ self.instructions[1][Flag]

\* InstructionListStates::is_breakpoint
is_breakpoint(self) ==
    IF IsSome(self.instruction_list_state.selected)
        THEN LET idx == Unwrap(self.instruction_list_state.selected)
             IN  IF InRange(self.instructions, idx)
                     THEN self.instructions[idx + 1][Flag]
                     ELSE FALSE
        ELSE FALSE

\* InstructionListStates::breakpoints_set
breakpoints_set(self) == \E k \in 1..Len(self.instructions) : self.instructions[k][Flag]

\* InstructionListStates::selected_line
selected_line(self) == self.instruction_list_state.selected

\* InstructionListStates::add_instruction
add_instruction(self, string) ==
    [self EXCEPT !.instructions = Append(@, <<0, string, FALSE>>)]

(***************************************************************************)
(* The App and its session states                                          *)
(***************************************************************************)
\* State
StateRunning == [tag |-> "Running"]
StateDebugSelect == [tag |-> "DebugSelect"]
StatePlayground(sandbox) == [tag |-> "Playground", sandbox |-> sandbox]
StateRuntimeError(error, from_playground) ==
    [tag |-> "RuntimeError", error |-> error, from_playground |-> from_playground]
StateCustomInstruction == [tag |-> "CustomInstruction"]
StateCustomInstructionError(reason, from_playground) ==
    [tag |-> "CustomInstructionError", reason |-> reason, from_playground |-> from_playground]
StateBuildProgramError(error) == [tag |-> "BuildProgramError", error |-> error]
StateFinished(dismissed) == [tag |-> "Finished", dismissed |-> dismissed]

\* App::from_runtime: the session starts in Running with the list of the
\* source lines and the breakpoints of the command line.
AppFromRuntime(runtime, lines, set_breakpoints) ==
    [runtime |-> runtime,
     state |-> StateRunning,
     instruction_list_states |-> InstructionListStatesNew(lines, set_breakpoints),
     executed_custom_instructions |-> <<>>,
     show_call_stack |-> FALSE]

\* The session states of the playground: it is open, or one of its errors is shown.
PlaygroundState(state) ==
    \/ state.tag = "Playground"
    \/ state.tag = "RuntimeError" /\ state.from_playground
    \/ state.tag = "CustomInstructionError" /\ state.from_playground

(***************************************************************************)
(* The operations of InstructionListStates in any order                    *)
(***************************************************************************)
MaxListLines == 3
WrapDepth == 2

\* The lines of a program of n lines, and the runtime built from them: the
\* list never looks into either.
ListLine(k) == "a0 := " \o UsizeToString(k)
ListLines(n) == [k \in 1..n |-> ListLine(k)]
ListRuntime(n) == Runtime(RuntimeArgsNewDebug({}), [k \in 1..n |-> Noop], ControlFlowNew)

\* The --breakpoints of a command line: none, or up to two line numbers, 0 and
\* the number after the last line among them.
BreakpointChoices ==
    {None} \cup {Some(v) : v \in SeqsUpTo(0..(MaxListLines + 1), 2)}

\* load is entered with the lines of a file and the breakpoints.
InitList ==
    /\ \E n \in 0..MaxListLines, b \in BreakpointChoices :
            result = [op |-> "load",
                      arg |-> [instructions |-> ListLines(n), breakpoints |-> b],
                      res |-> Ok(<<>>)]
    /\ CalcIdle
    /\ TryFromIdle
    /\ UiIdle
    /\ instructions = None
    /\ control_flow = ControlFlowNew
    /\ runtime_args = None
    /\ add_missing = FALSE

\* The App exists and no call has panicked.
Loaded == result.op # "load" /\ result.res.ok

Lines == Len(app.instruction_list_states.instructions)

\* What a call on the list leaves alone.
ListFrame ==
    UNCHANGED <<cmp_in, cmp_out, frame, loader, calc_in, calc_out, try_from_in, try_from_out,
                runtime_args, instructions, control_flow, add_missing>>

\* A call that returns: the list becomes list, and the call is noted.
ListCall(op, arg, list) ==
    /\ app' = [app EXCEPT !.instruction_list_states = list]
    /\ result' = [op |-> op, arg |-> arg, res |-> Ok(<<>>)]
    /\ ListFrame

\* A call that may panic: the process ends, the list is as it was.
ListTry(op, arg, res) ==
    /\ app' = IF res.ok THEN [app EXCEPT !.instruction_list_states = res.v] ELSE app
    /\ result' = [op |-> op, arg |-> arg, res |-> IF res.ok THEN Ok(<<>>) ELSE res]
    /\ ListFrame

CallFromRuntime ==
    /\ result.op = "load"
    /\ app' = AppFromRuntime(ListRuntime(Len(result.arg.instructions)),
                             result.arg.instructions, result.arg.breakpoints)
    /\ result' = [result EXCEPT !.op = "new"]
    /\ ListFrame

CallSetStart ==
    /\ Loaded
    /\ \E idx \in 0..Lines :
            ListCall("set_start", idx, set_start(app.instruction_list_states, idx))

CallSet ==
    /\ Loaded
    /\ \E idx \in 0..Lines :
            ListCall("set", idx, set(app.instruction_list_states, idx))

CallForceSet ==
    /\ Loaded
    /\ \E highlight_index \in 0..Lines :
            ListCall("force_set", highlight_index,
                     force_set(app.instruction_list_states, highlight_index))

CallDeselect ==
    /\ Loaded
    /\ ListCall("deselect", <<>>, deselect(app.instruction_list_states))

\* A selection that runs past the end is followed WrapDepth lines down.
CallSetNextVisual ==
    /\ Loaded
    /\ \A s \in {app.instruction_list_states.instruction_list_state.selected,
                 app.instruction_list_states.breakpoint_list_state.selected} :
            IsSome(s) => Unwrap(s) < Lines + WrapDepth
    /\ \E overflow_checks \in BOOLEAN :
            ListTry("set_next_visual", <<>>,
                    set_next_visual(app.instruction_list_states, overflow_checks))

\* A selection that wrapped below zero is followed WrapDepth lines down.
CallSetPrevVisual ==
    /\ Loaded
    /\ \A s \in {app.instruction_list_states.instruction_list_state.selected,
                 app.instruction_list_states.breakpoint_list_state.selected} :
            IsSome(s) => Unwrap(s) > -WrapDepth
    /\ \E overflow_checks \in BOOLEAN :
            ListTry("set_prev_visual", <<>>,
                    set_prev_visual(app.instruction_list_states, overflow_checks))

CallSetInstructionListState ==
    /\ Loaded
    /\ \E index \in {None} \cup {Some(i) : i \in 0..(Lines - 1)} :
            ListCall("set_instruction_list_state", index,
                     set_instruction_list_state(app.instruction_list_states, index))

CallToggleBreakpoint ==
    /\ Loaded
    /\ ListTry("toggle_breakpoint", <<>>, toggle_breakpoint(app.instruction_list_states))

CallAddInstruction ==
    /\ Loaded
    /\ Lines < MaxListLines
    /\ ListCall("add_instruction", ListLine(Lines + 1),
                add_instruction(app.instruction_list_states, ListLine(Lines + 1)))

\* The two questions about breakpoints: the list is only read, and the answer
\* is noted.
CallIsBreakpoint ==
    /\ Loaded
    /\ app' = app
    /\ result' = [op |-> "is_breakpoint", arg |-> <<>>,
                  res |-> Ok(is_breakpoint(app.instruction_list_states))]
    /\ ListFrame

CallBreakpointsSet ==
    /\ Loaded
    /\ app' = app
    /\ result' = [op |-> "breakpoints_set", arg |-> <<>>,
                  res |-> Ok(breakpoints_set(app.instruction_list_states))]
    /\ ListFrame

NextList ==
    \/ CallFromRuntime
    \/ CallSetStart
    \/ CallSet
    \/ CallForceSet
    \/ CallDeselect
    \/ CallSetNextVisual
    \/ CallSetPrevVisual
    \/ CallSetInstructionListState
    \/ CallToggleBreakpoint
    \/ CallIsBreakpoint
    \/ CallBreakpointsSet
    \/ CallAddInstruction

\* An InstructionListStates made by load and then used through its methods.
SpecList == InitList /\ [][NextList]_vars

(***************************************************************************)
(* draw.  A frame is what draw put on the terminal, widget by widget;      *)
(* colours, widths and the key hints are left out.                         *)
(***************************************************************************)
\* The test of draw for the playground layout, true in Playground alone.
is_playground_only(state) == state.tag = "Playground"

\* `let is_playground = match app.state { .. }`
is_playground(state) ==
    CASE state.tag = "Playground" -> TRUE
      [] state.tag = "RuntimeError" -> state.from_playground
      [] state.tag = "CustomInstructionError" -> state.from_playground
      [] OTHER -> FALSE

\* format!("{:2}: {}", i.0 + 1, i.1): the number is filled up to two places.
FormatLine(number, content) ==
    (IF number < 10 THEN " " ELSE "") \o UsizeToString(number) \o ": " \o content

Reverse(s) == [k \in 1..Len(s) |-> s[Len(s) + 1 - k]]

\* InstructionListStates::as_list_items
as_list_items(self, playground) ==
    LET items == [k \in 1..Len(self.instructions) |->
                    IF playground
                        THEN self.instructions[k][2]
                        ELSE FormatLine(self.instructions[k][1] + 1, self.instructions[k][2])]
    IN  IF playground THEN Reverse(items) ELSE items

\* The texts of the popups.
EscapeKey == "Esc"
FinishedText ==
    <<"Press [t] to reset to start.",
      "Press [d] to dismiss this message.",
      "Press [q] or [" \o EscapeKey \o "] to exit.">>
RuntimeErrorText(reason, playground) ==
    IF playground
        THEN <<"This instruction could not be executed due to the following problem:",
               reason, "",
               "Press [q] to exit and to view further information regarding this error.",
               "Press [ENTER] to close.">>
        ELSE <<"Execution can not continue due to the following problem:",
               reason, "",
               "Press [q] or [" \o EscapeKey \o "] to exit and to view further information regarding this error.",
               "Press [t] to reset to start.">>
CustomInstructionErrorText(reason) ==
    <<reason, "",
      "Press [q] or [" \o EscapeKey \o "] to exit and to view further information regarding this error.",
      "Press [ENTER] to close.">>
BuildProgramErrorText ==
    <<"The entered instruction is forbidden.", "",
      "Press [q] or [" \o EscapeKey \o "] to exit and to view further information regarding this error.",
      "Press [ENTER] to close.">>

\* Frame::render_stateful_widget of a List: the list leaves in its state the
\* index of the first line it showed.
render_stateful_widget(list_state, first_line) == [list_state EXCEPT !.offset = first_line]

\* What draw leaves in the App, with every breakpoint flag taken down.
draw_app_clearing(a, first_lines) ==
    [a EXCEPT !.instruction_list_states.instructions =
                    [k \in DOMAIN @ |-> <<@[k][1], @[k][2], FALSE>>]]

\* What draw leaves in the App: the two list states it hands to the lists.
draw_app(a, first_lines) ==
    [a EXCEPT
        !.instruction_list_states.instruction_list_state =
            render_stateful_widget(@, first_lines[1]),
        !.instruction_list_states.breakpoint_list_state =
            IF is_playground(a.state) THEN @ ELSE render_stateful_widget(@, first_lines[2])]

\* What draw puts on the terminal.
draw_frame(a) ==
    LET playground == is_playground(a.state)
    IN  [breakpoint_column |->
            IF playground THEN None
            ELSE Some([k \in DOMAIN a.instruction_list_states.instructions |->
                        IF a.instruction_list_states.instructions[k][Flag] THEN "*" ELSE " "]),
         code_area_title |->
            IF a.state.tag = "RuntimeError" /\ ~a.state.from_playground THEN None
            ELSE IF a.state.tag = "DebugSelect" THEN Some("Debug select mode")
            ELSE IF playground THEN Some("Executed instructions")
            ELSE Some("File: "),
         items |-> as_list_items(a.instruction_list_states, playground),
         highlighted |-> a.instruction_list_states.instruction_list_state.selected,
         next_instruction |->
            IF playground THEN None
            ELSE Some(UsizeToString(a.runtime.control_flow.next_instruction_index + 1)),
         call_stack |-> a.show_call_stack,
         finished_popup |->
            IF a.state = StateFinished(TRUE) THEN Some(FinishedText) ELSE None,
         custom_instruction |-> a.state.tag = "CustomInstruction",
         single_instruction |->
            IF a.state.tag = "Playground" THEN Some(<<>>)
            ELSE IF a.state.tag \in {"CustomInstructionError", "RuntimeError"}
                    /\ a.state.from_playground
                THEN Some(a.executed_custom_instructions)
            ELSE None,
         runtime_error_popup |->
            IF a.state.tag = "RuntimeError"
                THEN Some(RuntimeErrorText(a.state.error.reason, playground))
                ELSE None,
         custom_instruction_error_popup |->
            IF a.state.tag = "CustomInstructionError"
                THEN Some(CustomInstructionErrorText(a.state.reason))
                ELSE None,
         build_program_error_popup |->
            IF a.state.tag = "BuildProgramError" THEN Some(BuildProgramErrorText) ELSE None]

\* The session states draw is tried on.
DrawErrors == {[reason |-> "Attempt to divide by zero"]}
DrawStates ==
    {StateRunning, StateDebugSelect, StateCustomInstruction, StatePlayground(<<>>)}
        \cup {StateFinished(d) : d \in BOOLEAN}
        \cup {StateRuntimeError(e, p) : e \in DrawErrors, p \in BOOLEAN}
        \cup {StateCustomInstructionError("Unknown instruction", p) : p \in BOOLEAN}
        \cup {StateBuildProgramError("forbidden")}

\* The lists draw is tried on: a program with or without breakpoints, nothing
\* selected or one of the lines.
DrawLists ==
    {IF sel = None THEN InstructionListStatesNew(ListLines(n), b)
                   ELSE force_set(InstructionListStatesNew(ListLines(n), b), Unwrap(sel)) :
        n \in 0..MaxListLines,
        b \in {None, Some(<<1>>), Some(<<2, 3>>)},
        sel \in {None, Some(0), Some(MaxListLines - 1)}}

\* App::run stands before a draw with an App in any of these states.
InitDraw ==
    /\ \E state \in DrawStates, list \in DrawLists,
          show_call_stack \in BOOLEAN, executed \in {<<>>, <<"a0 := 1">>} :
        \E next \in 0..Len(list.instructions) :
            app = [runtime |-> [ListRuntime(Len(list.instructions))
                                    EXCEPT !.control_flow.next_instruction_index = next],
                   state |-> state,
                   instruction_list_states |-> list,
                   executed_custom_instructions |-> executed,
                   show_call_stack |-> show_call_stack]
    /\ result = [op |-> "run", res |-> Ok(<<>>)]
    /\ CalcIdle
    /\ TryFromIdle
    /\ CmpIdle
    /\ LoaderIdle
    /\ frame = None
    /\ instructions = None
    /\ control_flow = ControlFlowNew
    /\ runtime_args = None
    /\ add_missing = FALSE

\* draw(f, app): the lists show from any of their lines on.
Draw ==
    /\ \E first_lines \in (0..Lines) \X (0..Lines) :
            app' = draw_app(app, first_lines)
    /\ frame' = Some(draw_frame(app))
    /\ result' = [op |-> "draw", res |-> Ok(<<>>)]
    /\ UNCHANGED <<cmp_in, cmp_out, loader, calc_in, calc_out, try_from_in, try_from_out,
                   runtime_args, instructions, control_flow, add_missing>>

NextDraw == Draw

\* draw on an App in any session state.
SpecDraw == InitDraw /\ [][NextDraw]_vars

(***************************************************************************)
(* load and main.  The loader variable holds the statement a run of load   *)
(* or of main stands before, and what the run has done so far to the file, *)
(* to the terminal and to the App.  The calls of load go into code that is *)
(* not modelled, so each call that returns a Result may fail.              *)
(***************************************************************************)
\* load with the source file written before the runtime is built.
LoadOrderWriteFirst ==
    <<"load_instruction_history", "apply_args", "write_file", "build",
      "setup_terminal", "from_runtime", "run", "restore_terminal", "return">>

\* The statements of load, in the order of the source.
LoadOrder ==
    <<"load_instruction_history", "apply_args", "build", "write_file",
      "setup_terminal", "from_runtime", "run", "restore_terminal", "return">>

\* The statements of main; "builder" stands for build_instructions and build.
MainOrder ==
    <<"read_file", "builder", "setup_terminal", "from_runtime", "run",
      "restore_terminal", "return">>

\* The statement after pc.
After(order, pc) == order[(CHOOSE k \in DOMAIN order : order[k] = pc) + 1]

LoaderStart(proc, order, write_alignment) ==
    [proc |-> proc,
     pc |-> order[1],
     write_alignment |-> write_alignment,
     rt |-> None,            \* the Runtime that build returned
     written |-> FALSE,      \* write_file was called on the source file
     terminal |-> FALSE,     \* the terminal was put into raw mode
     app |-> "none",         \* none, created, running, done
     executed |-> FALSE,     \* an instruction of the program was executed
     returned |-> None]      \* what the function returned, or the exit code

\* The lines main reads from the file.
LoadLines ==
    {<<>>,
     <<"l1", ":", " ", "goto", " ", "l1">>,
     <<"goto", " ", "l2">>,
     <<"a1", " ", ":=">>}

InitLoad ==
    /\ \/ \E write_alignment \in BOOLEAN :
            loader = Some(LoaderStart("load", LoadOrder, write_alignment))
       \/ loader = Some(LoaderStart("main", MainOrder, FALSE))
    /\ CalcIdle
    /\ TryFromIdle
    /\ CmpIdle
    /\ AppIdle
    /\ BuilderNew

\* The run of proc stands before statement pc.
At(proc, pc) ==
    /\ Unwrap(loader).proc = proc
    /\ Unwrap(loader).pc = pc
    /\ Unwrap(loader).returned = None

LoaderFrame ==
    UNCHANGED <<cmp_in, cmp_out, app, frame, calc_in, calc_out, try_from_in, try_from_out,
                runtime_args, instructions, control_flow, add_missing, result>>

\* A statement of load: it returns, with its effects in done, and load goes
\* on; or, if it ends in `?`, it fails and load returns the error.
LoadStatement(pc, may_fail, done) ==
    /\ At("load", pc)
    /\ \/ loader' = Some([done EXCEPT !.pc = After(LoadOrder, pc)])
       \/ /\ may_fail
          /\ loader' = Some([Unwrap(loader) EXCEPT !.returned = Some(Err(pc))])
    /\ LoaderFrame

LoadInstructionHistory ==
    LoadStatement("load_instruction_history", TRUE, Unwrap(loader))

\* RuntimeBuilder::new and the two apply_.._args
LoadApplyArgs == LoadStatement("apply_args", TRUE, Unwrap(loader))

\* `let rt = rb.build().wrap_err("while building runtime")?;`
LoadBuild == LoadStatement("build", TRUE, [Unwrap(loader) EXCEPT !.rt = Some("rt")])

\* pretty_format_instructions, and write_file if --write-alignment is set.  A
\* write_file that fails has been called on the file all the same.
LoadWriteFile ==
    /\ At("load", "write_file")
    /\ IF Unwrap(loader).write_alignment
           THEN \/ loader' = Some([Unwrap(loader) EXCEPT
                                    !.written = TRUE,
                                    !.pc = After(LoadOrder, "write_file")])
                \/ loader' = Some([Unwrap(loader) EXCEPT
                                    !.written = TRUE,
                                    !.returned = Some(Err("write_file"))])
           ELSE loader' = Some([Unwrap(loader) EXCEPT !.pc = After(LoadOrder, "write_file")])
    /\ LoaderFrame

LoadSetupTerminal ==
    /\ At("load", "setup_terminal")
    /\ \/ loader' = Some([Unwrap(loader) EXCEPT
                            !.terminal = TRUE,
                            !.pc = After(LoadOrder, "setup_terminal")])
       \/ \E terminal \in BOOLEAN :
            loader' = Some([Unwrap(loader) EXCEPT
                                !.terminal = terminal,
                                !.returned = Some(Err("setup_terminal"))])
    /\ LoaderFrame

LoadFromRuntime ==
    LoadStatement("from_runtime", FALSE, [Unwrap(loader) EXCEPT !.app = "created"])

\* `let res = app.run(&mut terminal);`: the session runs, and may execute
\* instructions of the program; its result is looked at in the last statement.
LoadRun ==
    /\ At("load", "run")
    /\ \E executed \in BOOLEAN, res \in {Ok(<<>>), Err("run")} :
            loader' = Some([Unwrap(loader) EXCEPT
                                !.app = IF res.ok THEN "done" ELSE "failed",
                                !.executed = executed,
                                !.pc = After(LoadOrder, "run")])
    /\ LoaderFrame

LoadRestoreTerminal ==
    LoadStatement("restore_terminal", TRUE, [Unwrap(loader) EXCEPT !.terminal = FALSE])

\* `res?; Ok(())`
LoadReturn ==
    /\ At("load", "return")
    /\ loader' = Some([Unwrap(loader) EXCEPT
                        !.returned = Some(IF Unwrap(loader).app = "failed"
                                              THEN Err("run") ELSE Ok(<<>>))])
    /\ LoaderFrame

\* A statement of main.
MainStatement(pc, may_fail, done) ==
    /\ At("main", pc)
    /\ \/ loader' = Some([done EXCEPT !.pc = After(MainOrder, pc)])
       \/ /\ may_fail
          /\ loader' = Some([Unwrap(loader) EXCEPT !.returned = Some(Err(pc))])
    /\ LoaderFrame

\* read_file, and exit(-1) if it fails
MainReadFile == MainStatement("read_file", TRUE, Unwrap(loader))

\* rb.build_instructions on the lines of the file
MainBuildInstructions ==
    /\ At("main", "builder")
    /\ result.op = "new"
    /\ \E input \in SeqsUpTo(LoadLines, MaxLines) : build_instructions(input)

\* rb.build
MainBuild ==
    /\ At("main", "builder")
    /\ result.op = "build_instructions"
    /\ result.res.ok
    /\ build

\* exit(-1) after build_instructions or build returned an error
MainExit ==
    /\ At("main", "builder")
    /\ ~result.res.ok
    /\ loader' = Some([Unwrap(loader) EXCEPT !.returned = Some(Err(result.op))])
    /\ LoaderFrame

\* `Ok(rt) => rt`
MainBuilt ==
    /\ At("main", "builder")
    /\ result.op = "build"
    /\ result.res.ok
    /\ loader' = Some([Unwrap(loader) EXCEPT
                        !.rt = Some(result.res.v),
                        !.pc = After(MainOrder, "builder")])
    /\ LoaderFrame

\* enable_raw_mode, EnterAlternateScreen, Terminal::new
MainSetupTerminal ==
    /\ At("main", "setup_terminal")
    /\ \/ loader' = Some([Unwrap(loader) EXCEPT
                            !.terminal = TRUE,
                            !.pc = After(MainOrder, "setup_terminal")])
       \/ \E terminal \in BOOLEAN :
            loader' = Some([Unwrap(loader) EXCEPT
                                !.terminal = terminal,
                                !.returned = Some(Err("setup_terminal"))])
    /\ LoaderFrame

MainFromRuntime ==
    MainStatement("from_runtime", FALSE, [Unwrap(loader) EXCEPT !.app = "created"])

\* App::run of main.rs draws until q is pressed; it executes no instruction.
MainRun ==
    /\ At("main", "run")
    /\ \E res \in {Ok(<<>>), Err("run")} :
            loader' = Some([Unwrap(loader) EXCEPT
                                !.app = IF res.ok THEN "done" ELSE "failed",
                                !.pc = After(MainOrder, "run")])
    /\ LoaderFrame

MainRestoreTerminal ==
    MainStatement("restore_terminal", TRUE, [Unwrap(loader) EXCEPT !.terminal = FALSE])

\* `Ok(())`
MainReturn ==
    /\ At("main", "return")
    /\ loader' = Some([Unwrap(loader) EXCEPT !.returned = Some(Ok(<<>>))])
    /\ LoaderFrame

NextLoad ==
    \/ LoadInstructionHistory
    \/ LoadApplyArgs
    \/ LoadBuild
    \/ LoadWriteFile
    \/ LoadSetupTerminal
    \/ LoadFromRuntime
    \/ LoadRun
    \/ LoadRestoreTerminal
    \/ LoadReturn
    \/ MainReadFile
    \/ MainBuildInstructions
    \/ MainBuild
    \/ MainExit
    \/ MainBuilt
    \/ MainSetupTerminal
    \/ MainFromRuntime
    \/ MainRun
    \/ MainRestoreTerminal
    \/ MainReturn

\* A run of load or of main, from its first statement to its return.
SpecLoad == InitLoad /\ [][NextLoad]_vars

(***************************************************************************)
(* The execution engine and the session controller.  Runtime::step and     *)
(* App::run are not part of the sources at hand; they follow the table of  *)
(* instruction effects and the transitions of the debugger session, and    *)
(* use calc, cmp and the InstructionListStates of the sources.             *)
(***************************************************************************)
RuntimeErrorOf(reason) == [reason |-> reason]

\* The value of an operand: a constant, or what the accumulator or memory cell
\* holds; a missing or unset one is a runtime error.
Resolve(args, value) ==
    CASE value.kind = "Constant" -> Ok(value.value)
      [] value.kind = "Accumulator" ->
            IF value.id \in DOMAIN args.accumulators /\ IsSome(args.accumulators[value.id].data)
                THEN Ok(Unwrap(args.accumulators[value.id].data))
                ELSE Err(RuntimeErrorOf("AccumulatorUninitialized"))
      [] value.kind = "MemoryCell" ->
            IF value.label \in DOMAIN args.memory_cells /\ IsSome(args.memory_cells[value.label].data)
                THEN Ok(Unwrap(args.memory_cells[value.label].data))
                ELSE Err(RuntimeErrorOf("MemoryCellUninitialized"))

\* target <- v
Store(args, target, v) ==
    CASE target.kind = "Accumulator" ->
            IF target.id \in DOMAIN args.accumulators
                THEN Ok([args EXCEPT !.accumulators[target.id].data = Some(v)])
                ELSE Err(RuntimeErrorOf("AccumulatorDoesNotExist"))
      [] target.kind = "MemoryCell" ->
            IF target.label \in DOMAIN args.memory_cells
                THEN Ok([args EXCEPT !.memory_cells[target.label].data = Some(v)])
                ELSE Err(RuntimeErrorOf("MemoryCellDoesNotExist"))

\* The runtime with the next instruction set to index.
JumpTo(rt, index) == [rt EXCEPT !.control_flow.next_instruction_index = index]
Advance(rt) == JumpTo(rt, rt.control_flow.next_instruction_index + 1)
Labels(rt) == rt.control_flow.instruction_labels

\* Call that jumps and leaves the call stack as it is.
RunCallNoPush(rt, label) == Ok(JumpTo(rt, Labels(rt)[label]))

\* Call(label): push current index + 1 onto the call stack; jump to label.
RunCall(rt, label) ==
    Ok(JumpTo([rt EXCEPT !.control_flow.call_stack =
                    Append(@, rt.control_flow.next_instruction_index + 1)],
              Labels(rt)[label]))

\* Return: pop the call stack into next_instruction_index; an empty call
\* stack is a runtime error.
RunReturn(rt) ==
    LET call_stack == rt.control_flow.call_stack
    IN  IF Len(call_stack) = 0 THEN Err(RuntimeErrorOf("CallStackEmpty"))
        ELSE Ok(JumpTo([rt EXCEPT !.control_flow.call_stack = SubSeq(@, 1, Len(@) - 1)],
                       call_stack[Len(call_stack)]))

\* The effect of one instruction on a runtime that stands before it.
RunInstruction(rt, instruction) ==
    CASE instruction.tag = "Assign" ->
            LET v == Resolve(rt.runtime_args, instruction.source)
                s == Store(rt.runtime_args, instruction.target, v.v)
            IN  IF ~v.ok THEN v ELSE IF ~s.ok THEN s
                ELSE Ok(Advance([rt EXCEPT !.runtime_args = s.v]))
      [] instruction.tag = "Calc" ->
            LET a == Resolve(rt.runtime_args, instruction.a)
                b == Resolve(rt.runtime_args, instruction.b)
                c == calc(instruction.op, a.v, b.v)
                s == Store(rt.runtime_args, instruction.target, c.v)
            IN  IF ~a.ok THEN a ELSE IF ~b.ok THEN b
                ELSE IF ~c.ok THEN Err(RuntimeErrorOf(c.err))
                ELSE IF ~s.ok THEN s
                ELSE Ok(Advance([rt EXCEPT !.runtime_args = s.v]))
      [] instruction.tag = "Call" -> RunCall(rt, instruction.label)
      [] instruction.tag = "Goto" -> Ok(JumpTo(rt, Labels(rt)[instruction.label]))
      [] instruction.tag = "JumpIf" ->
            LET a == Resolve(rt.runtime_args, instruction.a)
                b == Resolve(rt.runtime_args, instruction.b)
            IN  IF ~a.ok THEN a ELSE IF ~b.ok THEN b
                ELSE IF cmp(instruction.cmp, a.v, b.v)
                    THEN Ok(JumpTo(rt, Labels(rt)[instruction.label]))
                    ELSE Ok(Advance(rt))
      [] instruction.tag = "Noop" -> Ok(Advance(rt))
      [] instruction.tag = "Push" ->
            LET a == Resolve(rt.runtime_args, Accumulator(0))
            IN  Ok(Advance([rt EXCEPT !.runtime_args.stack = Append(@, IF a.ok THEN a.v ELSE 0)]))
      [] instruction.tag = "Pop" ->
            LET stack == rt.runtime_args.stack
                s == Store(rt.runtime_args, Accumulator(0), stack[Len(stack)])
            IN  IF Len(stack) = 0 THEN Err(RuntimeErrorOf("StackEmpty"))
                ELSE IF ~s.ok THEN s
                ELSE Ok(Advance([rt EXCEPT !.runtime_args =
                                    [s.v EXCEPT !.stack = SubSeq(@, 1, Len(@) - 1)]]))
      [] instruction.tag = "Return" -> RunReturn(rt)

\* The terminal index: one past the last instruction.
RuntimeFinished(rt) == rt.control_flow.next_instruction_index >= Len(rt.instructions)

\* Runtime::step: the instruction at next_instruction_index is run.
RuntimeStep(rt) ==
    RunInstruction(rt, rt.instructions[rt.control_flow.next_instruction_index + 1])

\* A playground instruction that is run on the committed runtime.
playground_execute_committing(a, instruction) ==
    LET res == RunInstruction(a.runtime, instruction)
    IN  IF res.ok
            THEN [a EXCEPT !.runtime = res.v,
                           !.state = StatePlayground(res.v),
                           !.executed_custom_instructions = Append(@, instruction)]
            ELSE [a EXCEPT !.state = StateRuntimeError(res.err, TRUE)]

\* A playground instruction is run on the sandbox of the Playground state; a
\* runtime error leaves the session in RuntimeError with the playground flag.
playground_execute(a, instruction) ==
    LET res == RunInstruction(a.state.sandbox, instruction)
    IN  IF res.ok
            THEN [a EXCEPT !.state = StatePlayground(res.v),
                           !.executed_custom_instructions = Append(@, instruction)]
            ELSE [a EXCEPT !.state = StateRuntimeError(res.err, TRUE)]

\* The programs of the sessions: calls nested two deep, a Return with no call
\* before it, and a division by zero.
SessionArgs ==
    [accumulators |-> [id \in 0..1 |-> NewAccumulator(id)],
     memory_cells |-> EmptyMap,
     stack |-> <<>>]
SessionPrograms ==
    {[instructions |-> <<Call("f"), Goto("END"), Call("g"), Return, Return>>,
      labels |-> [f |-> 2, g |-> 4, END |-> 5]],
     [instructions |-> <<Assign(Accumulator(0), Constant(5)), Push, Return>>,
      labels |-> [END |-> 3]],
     [instructions |-> <<Calc(Accumulator(0), Constant(5), "Div", Constant(0))>>,
      labels |-> [END |-> 1]]}
SessionRuntime(p) ==
    Runtime(SessionArgs, p.instructions,
            [ControlFlowNew EXCEPT !.instruction_labels = p.labels])

\* The instructions typed into the playground.
MaxExecuted == 2
PlaygroundInstructions ==
    {Assign(Accumulator(0), Constant(7)),
     Calc(Accumulator(1), Accumulator(0), "Add", Constant(1)),
     Calc(Accumulator(0), Constant(5), "Div", Constant(0)),
     Calc(Accumulator(0), Constant(0), "Div", Constant(0)),
     Push, Pop, Return, Goto("END")}

\* A session after App::from_runtime.
InitSession ==
    /\ \E p \in SessionPrograms :
            app = AppFromRuntime(SessionRuntime(p),
                                 [k \in 1..Len(p.instructions) |-> ListLine(k)], None)
    /\ result = [op |-> "new", res |-> Ok(<<>>)]
    /\ CalcIdle
    /\ TryFromIdle
    /\ CmpIdle
    /\ LoaderIdle
    /\ frame = None
    /\ instructions = None
    /\ control_flow = ControlFlowNew
    /\ runtime_args = None
    /\ add_missing = FALSE

SessionFrame ==
    UNCHANGED <<cmp_in, cmp_out, frame, loader, calc_in, calc_out, try_from_in, try_from_out,
                runtime_args, instructions, control_flow, add_missing>>

\* The start command: the first line to run is shown.
SessionStart ==
    /\ result.op = "new"
    /\ app' = [app EXCEPT !.instruction_list_states =
                    set_start(@, app.runtime.control_flow.next_instruction_index)]
    /\ result' = [op |-> "start", res |-> Ok(<<>>)]
    /\ SessionFrame

\* The step command in Running: one instruction is run; a runtime error
\* leaves the session in RuntimeError, the terminal index in Finished(false).
SessionStep ==
    /\ result.op # "new"
    /\ app.state = StateRunning
    /\ ~RuntimeFinished(app.runtime)
    /\ LET res == RuntimeStep(app.runtime)
       IN  /\ app' = IF res.ok
                        THEN [app EXCEPT
                                !.runtime = res.v,
                                !.instruction_list_states =
                                    set(@, res.v.control_flow.next_instruction_index),
                                !.state = IF RuntimeFinished(res.v)
                                              THEN StateFinished(FALSE) ELSE StateRunning]
                        ELSE [app EXCEPT !.state = StateRuntimeError(res.err, FALSE)]
           /\ result' = [op |-> "step", res |-> res]
    /\ SessionFrame

\* Playground mode is entered: the sandbox is a copy of the runtime.
EnterPlayground ==
    /\ result.op # "new"
    /\ app.state = StateRunning
    /\ app' = [app EXCEPT !.state = StatePlayground(app.runtime),
                          !.executed_custom_instructions = <<>>]
    /\ result' = [op |-> "enter_playground", res |-> Ok(<<>>)]
    /\ SessionFrame

\* An instruction is typed into the playground and run.
PlaygroundExecute ==
    /\ app.state.tag = "Playground"
    /\ Len(app.executed_custom_instructions) < MaxExecuted
    /\ \E instruction \in PlaygroundInstructions :
        /\ app' = playground_execute(app, instruction)
        /\ result' = [op |-> "playground_execute", arg |-> instruction, res |-> Ok(<<>>)]
    /\ SessionFrame

\* What is typed into the playground does not parse.
PlaygroundParseFailure ==
    /\ app.state.tag = "Playground"
    /\ app' = [app EXCEPT !.state = StateCustomInstructionError("UnknownInstruction", TRUE)]
    /\ result' = [op |-> "playground_parse", res |-> Err("UnknownInstruction")]
    /\ SessionFrame

\* The playground is left, or its error popup is closed: the sandbox is gone.
ExitPlayground ==
    /\ PlaygroundState(app.state)
    /\ app' = [app EXCEPT !.state = StateRunning]
    /\ result' = [op |-> "exit_playground", res |-> Ok(<<>>)]
    /\ SessionFrame

NextSession ==
    \/ SessionStart
    \/ SessionStep
    \/ EnterPlayground
    \/ PlaygroundExecute
    \/ PlaygroundParseFailure
    \/ ExitPlayground

\* A debugger session on a built program.
SpecSession == InitSession /\ [][NextSession]_vars

(***************************************************************************)
(* MemoryListsManager.  An entry (String, bool) is the pair <<text,         *)
(* changed>>; an item of the two stack lists is its text and whether it is *)
(* drawn on the highlight colour.  The Display of Accumulator and of        *)
(* MemoryCell and the instructions that write the registers are not part   *)
(* of the sources at hand.                                                 *)
(***************************************************************************)
\* TargetType::Gamma and TargetType::IndexMemoryCell with a direct index
Gamma == [kind |-> "Gamma"]
IndexMemoryCell(index) == [kind |-> "IndexMemoryCell", index |-> index]

\* i32 as format!("{}") writes it, and {:2} of a usize
I32ToString(v) == IF v < 0 THEN "-" \o UsizeToString(0 - v) ELSE UsizeToString(v)
Pad2(n) == (IF n < 10 THEN " " ELSE "") \o UsizeToString(n)
DataToString(data) == IF IsSome(data) THEN I32ToString(Unwrap(data)) ELSE "None"

\* format!("{}", accumulator) and format!("{}", memory_cell)
AccumulatorDisplay(acc) == Pad2(acc.id) \o ": " \o DataToString(acc.data)
MemoryCellDisplay(cell) == cell.label \o ": " \o DataToString(cell.data)

\* format!("[{:2}]: {}", index, v) and format!("[{:2}]: None", index)
IndexMemoryCellDisplay(index, value) ==
    IF IsSome(value)
        THEN "[" \o Pad2(index) \o "]: " \o I32ToString(Unwrap(value))
        ELSE "[" \o Pad2(index) \o "]: None"

\* MemoryListsManager::new
MemoryListsManagerNew(args) ==
    [accumulators |->
        [id \in DOMAIN args.accumulators |-> <<AccumulatorDisplay(args.accumulators[id]), FALSE>>],
     gamma |-> IF IsSome(args.gamma) THEN Some(<<Unwrap(args.gamma), FALSE>>) ELSE None,
     memory_cells |->
        [l \in DOMAIN args.memory_cells |-> <<MemoryCellDisplay(args.memory_cells[l]), FALSE>>],
     index_memory_cells |->
        [i \in DOMAIN args.index_memory_cells |->
            <<IndexMemoryCellDisplay(i, args.index_memory_cells[i]), FALSE>>],
     stack |-> <<>>,
     call_stack |-> <<>>]

\* The comparison that leaves an entry flagged until its value changes again.
UpdateEntryKeeping(a, update) == IF update = a[1] THEN a ELSE <<update, TRUE>>

\* The comparison of update: an entry whose value is the recorded one loses
\* its flag, any other is replaced and flagged.
UpdateEntry(a, update) == IF update = a[1] THEN <<a[1], FALSE>> ELSE <<update, TRUE>>

\* The items of a stack list: the last one is highlighted when the length
\* of the stack has changed.
StackItems(texts, changed) ==
    [k \in 1..Len(texts) |-> [text |-> texts[k], highlighted |-> changed /\ k = Len(texts)]]

\* MemoryListsManager::update
update(self, runtime) ==
    LET args == runtime.runtime_args
        call_stack == runtime.control_flow.call_stack
    IN  [accumulators |->
            [id \in DOMAIN self.accumulators \cup DOMAIN args.accumulators |->
                IF id \in DOMAIN args.accumulators
                    THEN UpdateEntry(IF ContainsKey(self.accumulators, id)
                                         THEN self.accumulators[id] ELSE <<"0", TRUE>>,
                                     AccumulatorDisplay(args.accumulators[id]))
                    ELSE self.accumulators[id]],
         memory_cells |->
            [l \in DOMAIN self.memory_cells \cup DOMAIN args.memory_cells |->
                IF l \in DOMAIN args.memory_cells
                    THEN UpdateEntry(IF ContainsKey(self.memory_cells, l)
                                         THEN self.memory_cells[l] ELSE <<"0", TRUE>>,
                                     MemoryCellDisplay(args.memory_cells[l]))
                    ELSE self.memory_cells[l]],
         index_memory_cells |->
            [i \in DOMAIN self.index_memory_cells \cup DOMAIN args.index_memory_cells |->
                IF i \notin DOMAIN args.index_memory_cells THEN self.index_memory_cells[i]
                ELSE IF ~ContainsKey(self.index_memory_cells, i)
                    THEN <<IndexMemoryCellDisplay(i, args.index_memory_cells[i]), TRUE>>
                ELSE UpdateEntry(self.index_memory_cells[i],
                                 IndexMemoryCellDisplay(i, args.index_memory_cells[i]))],
         gamma |->
            IF IsSome(args.gamma)
                THEN IF IsSome(self.gamma)
                        THEN Some(UpdateEntry(Unwrap(self.gamma), Unwrap(args.gamma)))
                        ELSE Some(<<Unwrap(args.gamma), TRUE>>)
                ELSE self.gamma,
         stack |->
            StackItems([k \in 1..Len(args.stack) |-> I32ToString(args.stack[k])],
                       Len(self.stack) # Len(args.stack)),
         call_stack |->
            StackItems([k \in 1..Len(call_stack) |-> UsizeToString(call_stack[k] + 1)],
                       Len(self.call_stack) # Len(call_stack))]

\* target <- v, with the register made when it is not there yet.
MemoryStore(args, target, v) ==
    CASE target.kind = "Accumulator" ->
            [args EXCEPT !.accumulators =
                Insert(@, target.id, [id |-> target.id, data |-> Some(v)])]
      [] target.kind = "MemoryCell" ->
            [args EXCEPT !.memory_cells =
                Insert(@, target.label, [label |-> target.label, data |-> Some(v)])]
      [] target.kind = "IndexMemoryCell" ->
            [args EXCEPT !.index_memory_cells = Insert(@, target.index, Some(v))]
      [] target.kind = "Gamma" -> [args EXCEPT !.gamma = Some(Some(v))]

\* Bound: the deepest stack and call stack.
MaxStack == 2

\* The instruction at place k of the program is run; one that fails leaves
\* the runtime as it was.
MemoryRun(rt, k) ==
    LET instruction == rt.instructions[k]
        args == rt.runtime_args
        a0 == args.accumulators[0].data
    IN  CASE instruction.tag = "Assign" ->
                [rt EXCEPT !.runtime_args =
                    MemoryStore(args, instruction.target, instruction.source.value)]
          [] instruction.tag = "Push" ->
                [rt EXCEPT !.runtime_args.stack = Append(@, IF IsSome(a0) THEN Unwrap(a0) ELSE 0)]
          [] instruction.tag = "Pop" ->
                IF args.stack = <<>> THEN rt
                ELSE [rt EXCEPT !.runtime_args =
                        [MemoryStore(args, Accumulator(0), args.stack[Len(args.stack)])
                            EXCEPT !.stack = SubSeq(@, 1, Len(@) - 1)]]
          [] instruction.tag = "Call" ->
                [rt EXCEPT !.control_flow.call_stack = Append(@, k)]
          [] instruction.tag = "Return" ->
                IF rt.control_flow.call_stack = <<>> THEN rt
                ELSE [rt EXCEPT !.control_flow.call_stack = SubSeq(@, 1, Len(@) - 1)]

\* The programs whose registers are displayed: each writes registers that are
\* there from the start and registers that are not.
MemoryPrograms ==
    {<<Assign(Accumulator(0), Constant(0)), Assign(Accumulator(0), Constant(1)),
       Assign(Accumulator(1), Constant(1)), Assign(Gamma, Constant(1))>>,
     <<Assign(MemoryCell("h1"), Constant(1)), Assign(MemoryCell("h2"), Constant(-1)),
       Assign(IndexMemoryCell(0), Constant(1)), Assign(IndexMemoryCell(1), Constant(0))>>,
     <<Assign(Gamma, Constant(0)), Assign(Gamma, Constant(1)),
       Assign(IndexMemoryCell(12), Constant(1)), Push, Pop>>,
     <<Push, Call("f"), Return, Pop, Assign(Accumulator(0), Constant(1))>>}

\* The registers a Runtime starts with: accumulator 0 and the memory cell h1,
\* gamma in use or not, and the indexed cell 1 there or not.
MemoryArgs ==
    {[accumulators |-> (0 :> NewAccumulator(0)),
      gamma |-> gamma,
      memory_cells |-> ("h1" :> NewMemoryCell("h1")),
      index_memory_cells |-> index_memory_cells,
      stack |-> <<>>] :
        gamma \in {None, Some(None)}, index_memory_cells \in {EmptyMap, (1 :> None)}}

\* The manager is made from the registers of the runtime as built.
InitMemory ==
    /\ \E args \in MemoryArgs, program \in MemoryPrograms :
            app = [runtime |-> Runtime(args, program, ControlFlowNew),
                   memory_lists_manager |-> MemoryListsManagerNew(args)]
    /\ result = [op |-> "new", res |-> Ok(<<>>)]
    /\ CalcIdle
    /\ TryFromIdle
    /\ CmpIdle
    /\ LoaderIdle
    /\ frame = None
    /\ instructions = None
    /\ control_flow = ControlFlowNew
    /\ runtime_args = None
    /\ add_missing = FALSE

MemoryFrame ==
    UNCHANGED <<cmp_in, cmp_out, frame, loader, calc_in, calc_out, try_from_in, try_from_out,
                runtime_args, instructions, control_flow, add_missing>>

\* The runtime runs one of its instructions; the manager is not told.
MemoryStep ==
    /\ \E k \in DOMAIN app.runtime.instructions :
            /\ app.runtime.instructions[k].tag = "Push" =>
                    Len(app.runtime.runtime_args.stack) < MaxStack
            /\ app.runtime.instructions[k].tag = "Call" =>
                    Len(app.runtime.control_flow.call_stack) < MaxStack
            /\ app' = [app EXCEPT !.runtime = MemoryRun(@, k)]
            /\ result' = [op |-> "step", arg |-> k - 1, res |-> Ok(<<>>)]
    /\ MemoryFrame

\* update is called with the runtime as it is now.
CallUpdate ==
    /\ app' = [app EXCEPT !.memory_lists_manager = update(@, app.runtime)]
    /\ result' = [op |-> "update", res |-> Ok(<<>>)]
    /\ MemoryFrame

NextMemory ==
    \/ MemoryStep
    \/ CallUpdate

\* A MemoryListsManager that follows a running Runtime.
SpecMemory == InitMemory /\ [][NextMemory]_vars

(***************************************************************************)
(* Operation::calc: C1, C2, C3                                             *)
(***************************************************************************)
CalcDone == calc_out # None
CalcOp == Unwrap(calc_in).op
CalcX == Unwrap(calc_in).x
CalcY == Unwrap(calc_in).y
CalcRes == Unwrap(calc_out)

IsCalcError(res, cause) ==
    ~res.ok /\ res.err.type = "IllegalCalculation" /\ res.err.cause.cause = cause

\* |r| < |y|, without negating i32::MIN.
SmallerAbs(r, y) ==
    IF r >= 0 THEN (IF y > 0 THEN r < y ELSE -r > y)
    ELSE (IF y > 0 THEN r > -y ELSE r > y)

\* q is x / y rounded toward zero: the remainder x - q * y is smaller than y in
\* absolute value and is zero or has the sign of x.
IsTruncatedQuotient(x, y, q) ==
    LET r == x - q * y
    IN  /\ SmallerAbs(r, y)
        /\ (x >= 0 => r >= 0)
        /\ (x <= 0 => r <= 0)

\* C1: Div.calc(x, y) returns the AttemptToDivideByZero error if and only if
\* the divisor y is 0.
C1_DivideByZeroIffDivisorZero ==
    (CalcDone /\ CalcOp = "Div") =>
        (IsCalcError(CalcRes, "AttemptToDivideByZero") <=> CalcY = 0)

\* C2: for y # 0, and not i32::MIN / -1, Div.calc(x, y) returns Ok(q) with q
\* the quotient x / y rounded toward zero.
C2_DivTruncates ==
    (CalcDone /\ CalcOp = "Div" /\ CalcY # 0 /\ ~(CalcX = I32Min /\ CalcY = -1)) =>
        (CalcRes.ok /\ IsTruncatedQuotient(CalcX, CalcY, CalcRes.v))

\* floor((x + y) / 2) and floor((x - y) / 2), from the halves of x and y.
HalfSum(x, y) == (x \div 2) + (y \div 2) + (((x % 2) + (y % 2)) \div 2)
HalfDiff(x, y) == (x \div 2) - (y \div 2) + (((x % 2) - (y % 2)) \div 2)
HalfInRange(h) == h >= -(2^30) /\ h <= 2^30 - 1

\* x * y lies in the i32 range, decided by dividing the ends of the range.
ProductInRange(x, y) ==
    IF x = 0 \/ y = 0 THEN TRUE
    ELSE IF y = I32Min THEN x = 1
    ELSE IF x = I32Min THEN y = 1
    ELSE LET ax == IF x < 0 THEN -x ELSE x
             ay == IF y < 0 THEN -y ELSE y
         IN  IF (x < 0) = (y < 0)
                THEN ax <= I32Max \div ay
                ELSE \/ ax <= I32Max \div ay
                     \/ (I32Max % ay = ay - 1 /\ ax = (I32Max \div ay) + 1)

\* The exact result of op on x and y when it is an i32, None when it is not.
ExactInI32(op, x, y) ==
    CASE op = "Add" ->
            IF HalfInRange(HalfSum(x, y))
                THEN Some(2 * HalfSum(x, y) + (((x % 2) + (y % 2)) % 2)) ELSE None
      [] op = "Sub" ->
            IF HalfInRange(HalfDiff(x, y))
                THEN Some(2 * HalfDiff(x, y) + (((x % 2) - (y % 2)) % 2)) ELSE None
      [] op = "Mul" -> IF ProductInRange(x, y) THEN Some(x * y) ELSE None

\* C3: Add, Sub and Mul return the AttemptToOverflow error exactly when the
\* exact result lies outside the i32 range, and Ok of the exact result otherwise.
C3_CheckedArithmetic ==
    (CalcDone /\ CalcOp \in {"Add", "Sub", "Mul"}) =>
        LET exact == ExactInI32(CalcOp, CalcX, CalcY)
        IN  IF IsSome(exact)
                THEN CalcRes.ok /\ CalcRes.v = Unwrap(exact)
                ELSE IsCalcError(CalcRes, "AttemptToOverflow")

\* 65536 * 32768, one past i32::MAX, was refused.
C3_Witness ==
    /\ CalcDone
    /\ CalcOp = "Mul"
    /\ CalcX = 65536
    /\ CalcY = 32768
    /\ IsCalcError(CalcRes, "AttemptToOverflow")

(***************************************************************************)
(* RuntimeBuilder::build: C4 .. C8                                         *)
(***************************************************************************)
EndLabelSet == {EndLabels[i] : i \in DOMAIN EndLabels}

\* The accumulator or memory cell `ref` names is held by `args`.
Exists(args, ref) ==
    CASE ref.kind = "Accumulator" -> ref.id \in DOMAIN args.accumulators
      [] ref.kind = "MemoryCell" -> ref.label \in DOMAIN args.memory_cells
      [] ref.kind = "Constant" -> TRUE

\* `args` holds what `ref` names, with no value.
ExistsUnset(args, ref) ==
    CASE ref.kind = "Accumulator" ->
            /\ ref.id \in DOMAIN args.accumulators
            /\ args.accumulators[ref.id] = [id |-> ref.id, data |-> None]
      [] ref.kind = "MemoryCell" ->
            /\ ref.label \in DOMAIN args.memory_cells
            /\ args.memory_cells[ref.label] = [label |-> ref.label, data |-> None]

\* The error that reports `ref` as missing.
MissingError(ref) ==
    CASE ref.kind = "Accumulator" -> [type |-> "AccumulatorMissing", arg |-> UsizeToString(ref.id)]
      [] ref.kind = "MemoryCell" -> [type |-> "MemoryCellMissing", arg |-> ref.label]

\* The operands of an instruction, in the order they are written.
Operands(instruction) ==
    CASE instruction.tag = "Assign" -> <<instruction.target, instruction.source>>
      [] instruction.tag = "Calc" -> <<instruction.target, instruction.a, instruction.b>>
      [] instruction.tag = "JumpIf" -> <<instruction.a, instruction.b>>
      [] OTHER -> <<>>

\* The operands of the Assign and Calc instructions of a program, in program order.
RECURSIVE AssignCalcOperands(_)
AssignCalcOperands(instrs) ==
    IF instrs = <<>> THEN <<>>
    ELSE (IF Head(instrs).tag \in {"Assign", "Calc"} THEN Operands(Head(instrs)) ELSE <<>>)
            \o AssignCalcOperands(Tail(instrs))

\* Every Goto and JumpIf of the program targets a label of the table or an end label.
JumpTargetsDefined(labels, instrs) ==
    \A i \in DOMAIN instrs :
        instrs[i].tag \in {"Goto", "JumpIf"} =>
            instrs[i].label \in (DOMAIN labels) \cup EndLabelSet

BuildReturned == result.op = "build"
BuiltOk == result.op = "build" /\ result.res.ok
Built == result.res.v

\* C4: a build that gets as far as the storage check (runtime storage bound,
\* every Goto/JumpIf label defined) of a program whose Assign or Calc
\* instructions reference an accumulator or memory cell the RuntimeArgs do not
\* hold: with add_missing disabled it fails with AccumulatorMissing(id) resp.
\* MemoryCellMissing(label) for the first such reference; with add_missing
\* enabled it succeeds and the Runtime holds every such accumulator and cell
\* with the value None.
C4_BuildStep ==
    LET args == Unwrap(runtime_args)
        refs == AssignCalcOperands(Unwrap(instructions))
        missing == {k \in DOMAIN refs : ~Exists(args, refs[k])}
        first == CHOOSE k \in missing : \A j \in missing : k <= j
    IN  (/\ result'.op = "build"
         /\ IsSome(runtime_args)
         /\ IsSome(instructions)
         /\ JumpTargetsDefined(control_flow.instruction_labels, Unwrap(instructions))
         /\ missing # {})
        => IF add_missing
            THEN /\ result'.res.ok
                 /\ \A k \in missing : ExistsUnset(result'.res.v.runtime_args, refs[k])
            ELSE result'.res = Err(MissingError(refs[first]))

C4_MissingStorage == [][C4_BuildStep]_vars

\* build() returned a Runtime in which accumulator 7 and memory cell x, which
\* no RuntimeArgs given to a builder holds unset, were added for `a7 := p(x)`.
C4_Witness ==
    /\ BuiltOk
    /\ add_missing
    /\ \E i \in DOMAIN Built.instructions :
            Built.instructions[i] = Assign(Accumulator(7), MemoryCell("x"))
    /\ ExistsUnset(Built.runtime_args, Accumulator(7))
    /\ ExistsUnset(Built.runtime_args, MemoryCell("x"))

\* C5: once build() has succeeded, every accumulator and memory cell an
\* instruction of the program has as an operand, those of JumpIf included,
\* exists in the Runtime's RuntimeArgs.
C5_OperandsExist ==
    BuiltOk =>
        \A i \in DOMAIN Built.instructions :
            \A k \in DOMAIN Operands(Built.instructions[i]) :
                Exists(Built.runtime_args, Operands(Built.instructions[i])[k])

\* C6: in every Runtime build() returns, END, ENDE, end and ende are all
\* present and map to the number of instructions, also when a line of the
\* source defines one of them; and build() never reports an end label as
\* undefined.
C6_EndLabels ==
    BuildReturned =>
        IF result.res.ok
            THEN \A l \in EndLabelSet :
                    /\ l \in DOMAIN Built.control_flow.instruction_labels
                    /\ Built.control_flow.instruction_labels[l] = Len(Built.instructions)
            ELSE ~(result.res.err.type = "LabelUndefined" /\ result.res.err.arg \in EndLabelSet)

\* The Runtime built from a source whose first line is `END: goto END`.
C6_Witness ==
    /\ BuiltOk
    /\ Len(Built.instructions) = 2
    /\ Built.instructions[1] = Goto("END")
    /\ Built.control_flow.instruction_labels["END"] = 2

\* C7: a build() with runtime storage bound fails with LabelUndefined(name)
\* whenever some Goto or JumpIf targets a label absent from the label table
\* after the end labels were injected, name being the target of the first such
\* instruction; when every target exists it does not fail with LabelUndefined.
C7_LabelUndefined ==
    (BuildReturned /\ IsSome(runtime_args) /\ IsSome(instructions)) =>
        LET instrs == Unwrap(instructions)
            absent == {i \in DOMAIN instrs :
                        /\ instrs[i].tag \in {"Goto", "JumpIf"}
                        /\ instrs[i].label \notin DOMAIN control_flow.instruction_labels}
            first == CHOOSE i \in absent : \A j \in absent : i <= j
        IN  IF absent # {}
                THEN result.res = Err([type |-> "LabelUndefined", arg |-> instrs[first].label])
                ELSE result.res.ok \/ result.res.err.type # "LabelUndefined"

\* build() of `goto l1; goto l2` with neither label defined reported l1.
C7_Witness ==
    /\ BuildReturned
    /\ instructions = Some(<<Goto("l1"), Goto("l2")>>)
    /\ "l2" \notin DOMAIN control_flow.instruction_labels
    /\ result.res = Err([type |-> "LabelUndefined", arg |-> "l1"])

\* C8: build() never returns a Runtime containing a Call whose label is absent
\* from the label table.
C8_CallLabelsResolved ==
    BuiltOk =>
        \A i \in DOMAIN Built.instructions :
            Built.instructions[i].tag = "Call" =>
                Built.instructions[i].label \in DOMAIN Built.control_flow.instruction_labels

(***************************************************************************)
(* RuntimeBuilder::build_instructions: C9, C10                             *)
(***************************************************************************)
ParsedSource == result.op = "build_instructions"
Source == result.arg

\* What a source line holds once its comment is removed.
Tokens(line) == SplitWhitespace(RemoveComment(line))
DefinesLabel(line) == Tokens(line) # <<>> /\ EndsWithColon(Tokens(line)[1])
LabelOf(line) == ReplaceColon(Tokens(line)[1])
Statement(line) == IF DefinesLabel(line) THEN Tail(Tokens(line)) ELSE Tokens(line)
Parses(line) ==
    \/ Statement(line) = <<>>
    \/ InstructionTryFrom([k \in DOMAIN Statement(line) |-> Join(Statement(line)[k])]).ok

\* Line k defines a label that an earlier line defines.
Redefines(input, k) ==
    /\ DefinesLabel(input[k])
    /\ \E j \in 1..(k - 1) : DefinesLabel(input[j]) /\ LabelOf(input[j]) = LabelOf(input[k])

\* C9: when a line defines a label l, not main or MAIN, that an earlier line
\* defines, and no earlier line fails (none fails to parse, none defines a
\* label again), build_instructions fails with LabelDefinedMultipleTimes(l).
C9_LabelDefinedMultipleTimes ==
    ParsedSource =>
        \A k \in DOMAIN Source :
            (/\ Redefines(Source, k)
             /\ LabelOf(Source[k]) \notin MainLabels
             /\ \A j \in 1..(k - 1) : Parses(Source[j]) /\ ~Redefines(Source, j))
            => result.res = Err(BuildProgramError(
                    [type |-> "LabelDefinedMultipleTimes", label |-> LabelOf(Source[k])]))

\* `l1:` followed by `l1: goto l2` was rejected for l1.
C9_Witness ==
    /\ ParsedSource
    /\ Source = << <<"l1", ":">>, <<"l1", ":", " ", "goto", " ", "l2">> >>
    /\ result.res = Err(BuildProgramError([type |-> "LabelDefinedMultipleTimes", label |-> "l1"]))

\* C10: build_instructions fails with MainLabelDefinedMultipleTimes whenever
\* main and MAIN are defined more than once in total (main twice, MAIN twice, or
\* each once) in an input that is otherwise accepted: every line parses and no
\* other label is defined twice.
C10_MainLabelDefinedMultipleTimes ==
    (/\ ParsedSource
     /\ \A k \in DOMAIN Source : Parses(Source[k])
     /\ \A k \in DOMAIN Source : Redefines(Source, k) => LabelOf(Source[k]) \in MainLabels
     /\ Cardinality({k \in DOMAIN Source :
                        DefinesLabel(Source[k]) /\ LabelOf(Source[k]) \in MainLabels}) > 1)
    => result.res = Err(BuildProgramError([type |-> "MainLabelDefinedMultipleTimes"]))

\* A source that defines MAIN and then main, once each, was rejected.
C10_Witness ==
    /\ ParsedSource
    /\ Source = << <<"MAIN", ":">>, <<"main", ":", " ", "a1", " ", ":=", " ", "5">> >>
    /\ result.res = Err(BuildProgramError([type |-> "MainLabelDefinedMultipleTimes"]))

(***************************************************************************)
(* From source to Runtime: C12, C14, C15, C16, C18                         *)
(***************************************************************************)
\* The lines of a source that define main or MAIN.
MainLines(input) ==
    {k \in DOMAIN input : DefinesLabel(input[k]) /\ LabelOf(input[k]) \in MainLabels}

\* C12: when build() succeeds right after a successful build_instructions,
\* next_instruction_index and initial_instruction, in the Runtime and in the
\* builder, are both 0 if no line of the source defines main or MAIN, and both
\* i if 0-based line i defines main or MAIN.
C12_BuildStep ==
    (/\ result.op = "build_instructions"
     /\ result.res.ok
     /\ result'.op = "build"
     /\ result'.res.ok)
    => LET entry == IF MainLines(result.arg) = {} THEN {0}
                    ELSE {k - 1 : k \in MainLines(result.arg)}
           pointsAt(cf) == /\ entry = {cf.next_instruction_index}
                           /\ entry = {cf.initial_instruction}
       IN  pointsAt(result'.res.v.control_flow) /\ pointsAt(control_flow')

C12_EntryPoint == [][C12_BuildStep]_vars

\* The Runtime built from a blank line followed by `main: a1 := 5` starts at
\* instruction 1.
C12_Witness ==
    /\ BuiltOk
    /\ Built.instructions = <<Noop, Assign(Accumulator(1), Constant(5))>>
    /\ Built.control_flow.instruction_labels["main"] = 1
    /\ Built.control_flow.next_instruction_index = 1
    /\ Built.control_flow.initial_instruction = 1

\* A source line as its author reads it: the code ends where the first comment
\* marker, `//` or `#`, stands.
CommentMarkers == {"//", "#"}
Code(line) ==
    LET marks == {i \in DOMAIN line : line[i] \in CommentMarkers}
    IN  IF marks = {} THEN line
        ELSE SubSeq(line, 1, (CHOOSE i \in marks : \A j \in marks : i <= j) - 1)
Words(line) == SplitWhitespace(Code(line))
LabelOnly(line) == Len(Words(line)) = 1 /\ EndsWithColon(Words(line)[1])
StartsWithLabel(line) == Words(line) # <<>> /\ EndsWithColon(Words(line)[1])

ParsedOk == result.op = "build_instructions" /\ result.res.ok

\* C14: a successful build_instructions leaves one instruction per line of the
\* input, the k-th instruction being that of the k-th line: Noop for a blank, a
\* comment-only and a label-only line, the parsed statement otherwise; and a
\* label defined on 0-based line i maps to i, with or without a statement
\* after it.
C14_OneInstructionPerLine ==
    ParsedOk =>
        LET instrs == Unwrap(instructions)
        IN  /\ Len(instrs) = Len(Source)
            /\ \A k \in DOMAIN Source :
                /\ (Words(Source[k]) = <<>> \/ LabelOnly(Source[k])) => instrs[k] = Noop
                /\ Statement(Source[k]) # <<>> =>
                        instrs[k] = InstructionTryFrom(
                            [j \in DOMAIN Statement(Source[k]) |-> Join(Statement(Source[k])[j])]).v
                /\ StartsWithLabel(Source[k]) =>
                        /\ ContainsKey(control_flow.instruction_labels, ReplaceColon(Words(Source[k])[1]))
                        /\ control_flow.instruction_labels[ReplaceColon(Words(Source[k])[1])] = k - 1

\* A comment-only line followed by the line `l1:` became two Noops, with l1 at 1.
C14_Witness ==
    /\ ParsedOk
    /\ Source = << <<"//", " ", "note">>, <<"l1", ":">> >>
    /\ instructions = Some(<<Noop, Noop>>)
    /\ control_flow.instruction_labels["l1"] = 1

\* C15: build_instructions treats every line as it treats the line cut at its
\* first comment marker, `//` or `#`, whichever stands first: the same result,
\* the same instructions and the same label table as for the source without
\* its comments.
C15_CommentsRemoved ==
    ParsedSource =>
        LET plain == [k \in DOMAIN Source |-> Code(Source[k])]
            r == BuildLines(plain, 1, ControlFlowNew.instruction_labels, <<>>)
        IN  /\ control_flow.instruction_labels = r.labels
            /\ IF r.res.ok /\ ~BothMainLabels(r.labels)
                    THEN result.res.ok /\ instructions = Some(r.instrs)
                ELSE IF r.res.ok
                    THEN result.res = Err(BuildProgramError([type |-> "MainLabelDefinedMultipleTimes"]))
                ELSE result.res = r.res

\* The 1-based column at which piece p of a line starts.
RECURSIVE Column(_, _)
Column(line, p) == IF p = 1 THEN 1 ELSE Column(line, p - 1) + Len(line[p - 1])

\* The pieces at which the tokens of a line start, in order.
WordStarts(line) ==
    LET starts == {p \in DOMAIN RemoveComment(line) :
                        /\ line[p] \notin Whitespace
                        /\ (p = 1 \/ line[p - 1] \in Whitespace)}
        nth[k \in 1..Cardinality(starts)] ==
            CHOOSE p \in starts : Cardinality({q \in starts : q < p}) = k - 1
    IN  nth

\* The token of an unparseable line that the parser blames: its place among the
\* tokens of the line, a label before the statement counted.
BlamedWord(line) ==
    ErrorPart([k \in DOMAIN Statement(line) |-> Join(Statement(line)[k])])
        + (IF DefinesLabel(line) THEN 1 ELSE 0)

\* C16: when 0-based line i is the first line that fails, and it fails to
\* parse, build_instructions returns a ParseError whose span starts on line
\* i + 1 at the 1-based column where the blamed word stands in the source
\* line, indentation and a `label:` before it counted, and is as long as that
\* word.
C16_ParseErrorSpan ==
    ParsedSource =>
        \A k \in DOMAIN Source :
            (/\ ~Parses(Source[k])
             /\ ~Redefines(Source, k)
             /\ \A j \in 1..(k - 1) : Parses(Source[j]) /\ ~Redefines(Source, j))
            => /\ ~result.res.ok
               /\ result.res.err.reason.type = "ParseError"
               /\ result.res.err.reason.line = k
               /\ result.res.err.reason.column =
                        Column(Source[k], WordStarts(Source[k])[BlamedWord(Source[k])])
               /\ result.res.err.reason.length =
                        Len(Join(Tokens(Source[k])[BlamedWord(Source[k])]))

\* The accumulators and the memory cells a sequence of operands names.
AccumulatorsOf(refs) == {refs[k].id : k \in {j \in DOMAIN refs : refs[j].kind = "Accumulator"}}
MemoryCellsOf(refs) == {refs[k].label : k \in {j \in DOMAIN refs : refs[j].kind = "MemoryCell"}}

\* C18: a build() that succeeds with add_missing enabled returns, and leaves in
\* the builder, the RuntimeArgs it had with exactly the accumulators and memory
\* cells added that an Assign or Calc names, every accumulator and cell it had
\* before keeping its data; for the program `a1 := a2 + a3` and RuntimeArgs
\* without accumulator 4 the Runtime has accumulators 1, 2 and 3 and not 4.
C18_BuildStep ==
    (/\ result'.op = "build"
     /\ result'.res.ok
     /\ add_missing)
    => LET old == Unwrap(runtime_args)
           new == result'.res.v.runtime_args
           refs == AssignCalcOperands(Unwrap(instructions))
       IN  /\ runtime_args' = Some(new)
           /\ DOMAIN new.accumulators = DOMAIN old.accumulators \cup AccumulatorsOf(refs)
           /\ DOMAIN new.memory_cells = DOMAIN old.memory_cells \cup MemoryCellsOf(refs)
           /\ \A id \in DOMAIN old.accumulators : new.accumulators[id] = old.accumulators[id]
           /\ \A l \in DOMAIN old.memory_cells : new.memory_cells[l] = old.memory_cells[l]
           /\ (/\ Unwrap(instructions) =
                    <<Calc(Accumulator(1), Accumulator(2), "Add", Accumulator(3))>>
               /\ 4 \notin DOMAIN old.accumulators)
              => /\ {1, 2, 3} \subseteq DOMAIN new.accumulators
                 /\ 4 \notin DOMAIN new.accumulators

C18_OnlyReferencedAdded == [][C18_BuildStep]_vars

\* `a1 := a2 + a3` was built, with add_missing enabled, on RuntimeArgs that held
\* accumulator 7 with the value 5 and none of the accumulators 1, 2 and 3.
C18_Witness ==
    /\ BuiltOk
    /\ add_missing
    /\ Built.instructions = <<Calc(Accumulator(1), Accumulator(2), "Add", Accumulator(3))>>
    /\ DOMAIN Built.runtime_args.accumulators = {1, 2, 3, 7}
    /\ Built.runtime_args.accumulators[7].data = Some(5)
    /\ Built.runtime_args.accumulators[2].data = None

(***************************************************************************)
(* The builder's operations in any order: C11, C13, C17                    *)
(***************************************************************************)
\* C11: no Runtime build() returns has a label table that holds both main and
\* MAIN, whatever operations (build_instructions, set_instructions, add_label)
\* filled the builder.
C11_MainExclusive ==
    BuiltOk =>
        ~(/\ ContainsKey(Built.control_flow.instruction_labels, "main")
          /\ ContainsKey(Built.control_flow.instruction_labels, "MAIN"))

\* C13: build() fails with RuntimeArgsMissing when no runtime storage is bound,
\* and with InstructionsMissing when storage is bound but the instructions are
\* unset or empty, as they are after build_instructions on an input of no
\* lines; so no Runtime is returned in either case.
C13_MissingParts ==
    BuildReturned =>
        /\ ~IsSome(runtime_args) => result.res = Err([type |-> "RuntimeArgsMissing"])
        /\ (IsSome(runtime_args) /\ (~IsSome(instructions) \/ Unwrap(instructions) = <<>>))
                => result.res = Err([type |-> "InstructionsMissing"])

\* build() with storage bound and an empty instruction list was refused.
C13_Witness ==
    /\ BuildReturned
    /\ IsSome(runtime_args)
    /\ instructions = Some(<<>>)
    /\ result.res = Err([type |-> "InstructionsMissing"])

\* build() on a builder that was reset was refused for its missing storage.
C13_WitnessNoArgs ==
    /\ BuildReturned
    /\ ~IsSome(runtime_args)
    /\ ~IsSome(instructions)
    /\ result.res = Err([type |-> "RuntimeArgsMissing"])

\* C17: add_label(label, i) fails with InstructionsNotSet when no instructions
\* are set, and with IndexOutOfBounds when i is not below the number of
\* instructions, the label table staying as it was in both cases; otherwise it
\* succeeds and the label maps to i afterwards.
C17_AddLabelStep ==
    result'.op = "add_label" =>
        LET label == result'.arg.label
            i == result'.arg.index
        IN  IF ~IsSome(instructions)
                THEN /\ result'.res = Err("InstructionsNotSet")
                     /\ control_flow'.instruction_labels = control_flow.instruction_labels
            ELSE IF i >= Len(Unwrap(instructions))
                THEN /\ result'.res = Err("IndexOutOfBounds")
                     /\ control_flow'.instruction_labels = control_flow.instruction_labels
            ELSE /\ result'.res.ok
                 /\ ContainsKey(control_flow'.instruction_labels, label)
                 /\ control_flow'.instruction_labels[label] = i

C17_AddLabel == [][C17_AddLabelStep]_vars

\* add_label with the index one past the last instruction was refused.
C17_Witness ==
    /\ result.op = "add_label"
    /\ IsSome(instructions)
    /\ Unwrap(instructions) # <<>>
    /\ result.arg.index = Len(Unwrap(instructions))
    /\ result.res = Err("IndexOutOfBounds")
    /\ ~ContainsKey(control_flow.instruction_labels, result.arg.label)

(***************************************************************************)
(* Comparison::try_from and Operation::try_from: C19, C20                  *)
(***************************************************************************)
TryFromDone(of) == try_from_out # None /\ Unwrap(try_from_in).of = of
TryFromValue == Unwrap(try_from_in).value
TryFromRes == Unwrap(try_from_out)

\* The nine comparison symbols and the variant of each.
ComparisonSymbols ==
    ("<" :> "Less") @@ ("<=" :> "LessOrEqual") @@ ("=<" :> "LessOrEqual")
        @@ ("=" :> "Equal") @@ ("==" :> "Equal") @@ ("!=" :> "NotEqual")
        @@ (">=" :> "MoreOrEqual") @@ ("=>" :> "MoreOrEqual") @@ (">" :> "More")

\* C19: Comparison::try_from returns the variant of the symbol for each of the
\* nine symbols <, <=, =<, =, ==, !=, >=, => and >, and an error for every
\* other string.
C19_ComparisonTryFrom ==
    TryFromDone("Comparison") =>
        IF TryFromValue \in DOMAIN ComparisonSymbols
            THEN TryFromRes.ok /\ TryFromRes.v = ComparisonSymbols[TryFromValue]
            ELSE ~TryFromRes.ok

\* `=<` was read as LessOrEqual.
C19_Witness ==
    /\ TryFromDone("Comparison")
    /\ TryFromValue = "=<"
    /\ TryFromRes = Ok("LessOrEqual")

\* The four operation symbols and the variant of each.
OperationSymbols == ("+" :> "Add") @@ ("-" :> "Sub") @@ ("*" :> "Mul") @@ ("/" :> "Div")

\* C20: Operation::try_from returns Add, Sub, Mul and Div for +, -, * and /,
\* and an error for every other string, such as "P".
C20_OperationTryFrom ==
    TryFromDone("Operation") =>
        IF TryFromValue \in DOMAIN OperationSymbols
            THEN TryFromRes.ok /\ TryFromRes.v = OperationSymbols[TryFromValue]
            ELSE ~TryFromRes.ok

\* `/` was read as Div.
C20_Witness ==
    /\ TryFromDone("Operation")
    /\ TryFromValue = "/"
    /\ TryFromRes = Ok("Div")

\* "P" was refused.
C20_WitnessOther ==
    /\ TryFromDone("Operation")
    /\ TryFromValue = "P"
    /\ ~TryFromRes.ok

(***************************************************************************)
(* Comparison::cmp: C21                                                    *)
(***************************************************************************)
CmpDone == cmp_in # None /\ cmp_out # None
CmpX == Unwrap(cmp_in).x
CmpY == Unwrap(cmp_in).y

\* The relation each comparison names, said with "is below" and "is the same".
Relation ==
    [Less        |-> CmpX < CmpY,
     LessOrEqual |-> CmpX < CmpY \/ CmpX = CmpY,
     Equal       |-> CmpX = CmpY,
     NotEqual    |-> CmpX < CmpY \/ CmpY < CmpX,
     MoreOrEqual |-> ~(CmpX < CmpY),
     More        |-> CmpY < CmpX]

\* C21: Comparison::cmp(x, y) is true exactly when the relation the variant
\* names holds between x and y, for each of the six variants.
C21_Cmp ==
    CmpDone => (Unwrap(cmp_out) <=> Relation[Unwrap(cmp_in).comparison])

\* LessOrEqual on equal operands, at the lowest i32.
C21_Witness ==
    /\ CmpDone
    /\ Unwrap(cmp_in).comparison = "LessOrEqual"
    /\ CmpX = I32Min /\ CmpY = I32Min
    /\ Unwrap(cmp_out)

(***************************************************************************)
(* InstructionListStates: C29, C30                                         *)
(***************************************************************************)
List == app.instruction_list_states

\* The line numbers a --breakpoints list names.
Given(set_breakpoints) ==
    IF IsSome(set_breakpoints)
        THEN {Unwrap(set_breakpoints)[k] : k \in DOMAIN Unwrap(set_breakpoints)}
        ELSE {}

\* The indices of the lines that carry a flag.
Flagged(list) == {k - 1 : k \in {j \in DOMAIN list.instructions : list.instructions[j][Flag]}}

\* C29: InstructionListStates::new(lines, breakpoints) makes one entry per
\* line, and the line of index i carries a flag exactly when i + 1 is in the
\* list; an entry that is 0 or above the number of lines flags nothing, and
\* without a list no line is flagged.
C29_NewFlags ==
    result.op = "new" =>
        LET n == Len(result.arg.instructions)
            given == Given(result.arg.breakpoints)
        IN  /\ Len(List.instructions) = n
            /\ \A i \in 0..(n - 1) : List.instructions[i + 1][Flag] <=> (i + 1) \in given
            /\ Flagged(List) = {b - 1 : b \in given \cap (1..n)}
            /\ result.arg.breakpoints = None => Flagged(List) = {}

\* The list names 0 and line 2 of a program of three lines: the line of index
\* 1 alone is flagged.
C29_Witness ==
    /\ result.op = "new"
    /\ Len(result.arg.instructions) = 3
    /\ result.arg.breakpoints = Some(<<0, 2>>)
    /\ Flagged(List) = {1}

\* The list names the number after the last line, and no list is given.
C29_WitnessPastEnd ==
    /\ result.op = "new"
    /\ Len(result.arg.instructions) = 2
    /\ result.arg.breakpoints = Some(<<3, 1>>)
    /\ Flagged(List) = {0}

C29_WitnessNoList ==
    /\ result.op = "new"
    /\ Len(result.arg.instructions) = 2
    /\ result.arg.breakpoints = None

\* A line of the list is selected.
LineSelected(list) ==
    /\ IsSome(selected_line(list))
    /\ InRange(list.instructions, Unwrap(selected_line(list)))

\* A call of toggle_breakpoint that returned.
C30_ToggleStep ==
    (result'.op = "toggle_breakpoint" /\ result'.res.ok) =>
        LET sel == Unwrap(selected_line(List))
            before == List.instructions
            after == app'.instruction_list_states.instructions
        IN  /\ LineSelected(List)
            /\ Len(after) = Len(before)
            /\ \A k \in DOMAIN before :
                    /\ after[k][1] = before[k][1]
                    /\ after[k][2] = before[k][2]
                    /\ after[k][Flag] = (IF k = sel + 1 THEN ~before[k][Flag] ELSE before[k][Flag])
            /\ app'.instruction_list_states.instruction_list_state = List.instruction_list_state
            /\ app'.instruction_list_states.breakpoint_list_state = List.breakpoint_list_state
            /\ app'.instruction_list_states.last_index = List.last_index
            /\ app'.instruction_list_states.current_index = List.current_index

\* Toggling twice gives the list back.
C30_ToggleTwice ==
    (Loaded /\ LineSelected(List)) =>
        /\ toggle_breakpoint(List).ok
        /\ toggle_breakpoint(toggle_breakpoint(List).v) = Ok(List)

\* C30: with a line of the list selected, toggle_breakpoint inverts the flag
\* of that line and of no other, and changes neither the contents nor the
\* selection; a second toggle gives the first flags back.
C30_Toggle == [][C30_ToggleStep]_vars /\ []C30_ToggleTwice

\* A toggle has just flagged the last of three lines, and now every line
\* carries a flag.
C30_Witness ==
    /\ Loaded
    /\ result.op = "toggle_breakpoint"
    /\ Lines = 3
    /\ selected_line(List) = Some(2)
    /\ Flagged(List) = {0, 1, 2}

(***************************************************************************)
(* draw: C24, C27, C28                                                     *)
(***************************************************************************)
Drawn == result.op = "draw" /\ IsSome(frame)
Shown == Unwrap(frame)

\* The sentences of a popup, if it is shown.
Sentences(popup) == IF IsSome(popup) THEN {Unwrap(popup)[k] : k \in DOMAIN Unwrap(popup)} ELSE {}

\* C24: the "Execution finished" popup is on the frame drawn in
\* Finished(false), and is not on the frame drawn in Finished(true), the state
\* a dismiss leaves.
C24_FinishedPopup ==
    (Drawn /\ app.state.tag = "Finished") =>
        (IsSome(Shown.finished_popup) <=> ~app.state.dismissed)

\* C27: a call of draw leaves app.runtime and every breakpoint flag as they
\* were, whatever the session state.
C27_DrawStep ==
    result'.op = "draw" =>
        /\ app'.runtime = app.runtime
        /\ Len(app'.instruction_list_states.instructions) = Len(List.instructions)
        /\ \A k \in DOMAIN List.instructions :
                app'.instruction_list_states.instructions[k][Flag] = List.instructions[k][Flag]

C27_DrawFrame == [][C27_DrawStep]_vars

\* A draw in DebugSelect that scrolled both lists of a program with two
\* breakpoints.
C27_Witness ==
    /\ Drawn
    /\ app.state = StateDebugSelect
    /\ Flagged(List) = {1, 2}
    /\ List.instruction_list_state.offset = 2
    /\ List.breakpoint_list_state.offset = 1
    /\ app.runtime.control_flow.next_instruction_index = 1

\* C28: draw lays the frame out for the playground (no breakpoint column, no
\* next-instruction block, the executed instructions and their window) exactly
\* in Playground, RuntimeError(_, true) and CustomInstructionError(_, true);
\* the runtime-error popup says "Press [ENTER] to close." exactly when the
\* flag is true and "Press [t] to reset to start." exactly when it is false.
C28_PlaygroundLayout ==
    Drawn =>
        /\ Shown.breakpoint_column = None <=> PlaygroundState(app.state)
        /\ Shown.next_instruction = None <=> PlaygroundState(app.state)
        /\ Shown.code_area_title = Some("Executed instructions") <=> PlaygroundState(app.state)
        /\ IsSome(Shown.single_instruction) <=> PlaygroundState(app.state)
        /\ app.state.tag = "RuntimeError" =>
                /\ IsSome(Shown.runtime_error_popup)
                /\ "Press [ENTER] to close." \in Sentences(Shown.runtime_error_popup)
                        <=> app.state.from_playground
                /\ "Press [t] to reset to start." \in Sentences(Shown.runtime_error_popup)
                        <=> ~app.state.from_playground

\* A runtime error of the playground has been drawn.
C28_Witness ==
    /\ Drawn
    /\ app.state.tag = "RuntimeError"
    /\ app.state.from_playground
    /\ Shown.breakpoint_column = None
    /\ Shown.code_area_title = Some("Executed instructions")
    /\ "Press [ENTER] to close." \in Sentences(Shown.runtime_error_popup)

\* A runtime error of the program has been drawn.
C28_WitnessProgram ==
    /\ Drawn
    /\ app.state.tag = "RuntimeError"
    /\ ~app.state.from_playground
    /\ IsSome(Shown.breakpoint_column)
    /\ "Press [t] to reset to start." \in Sentences(Shown.runtime_error_popup)

(***************************************************************************)
(* load and main: C25                                                      *)
(***************************************************************************)
Ld == Unwrap(loader)

\* Something was done to the source file, to the terminal or to the App, or
\* an instruction of the program was executed.
LoaderActed == Ld.written \/ Ld.terminal \/ Ld.app # "none" \/ Ld.executed

\* Parsing and building returned Ok: for main as the builder recorded it, for
\* load as the Runtime that build handed back.
BuildSucceeded ==
    IF Ld.proc = "main" THEN result.op = "build" /\ result.res.ok
                        ELSE IsSome(Ld.rt)

\* Parsing or building returned an error.
BuildFailed ==
    IF Ld.proc = "main" THEN result.op \in {"build_instructions", "build"} /\ ~result.res.ok
                        ELSE Ld.returned = Some(Err("build"))

\* C25: load and main write the source file, set the terminal up, create and
\* run the App and execute instructions only after parsing and building have
\* succeeded; when building fails none of these has happened, and what the
\* run returns is the error.
C25_BuildFirst ==
    /\ LoaderActed => BuildSucceeded
    /\ BuildFailed =>
            /\ ~LoaderActed
            /\ IsSome(Ld.returned) => ~Unwrap(Ld.returned).ok

\* load with --write-alignment has built, written the file, set the terminal
\* up and run the App, which executed instructions.
C25_Witness ==
    /\ Ld.proc = "load"
    /\ BuildSucceeded
    /\ Ld.written /\ Ld.terminal /\ Ld.app = "done" /\ Ld.executed

\* load with --write-alignment has returned the error of build.
C25_WitnessFailed ==
    /\ Ld.proc = "load"
    /\ Ld.write_alignment
    /\ BuildFailed
    /\ Ld.returned = Some(Err("build"))

\* main has left with exit(-1) on a build error, and main has run the App.
C25_WitnessMainFailed ==
    /\ Ld.proc = "main"
    /\ BuildFailed
    /\ result.op = "build"
    /\ Ld.returned = Some(Err("build"))

C25_WitnessMain ==
    /\ Ld.proc = "main"
    /\ BuildSucceeded
    /\ Ld.app = "done"

(***************************************************************************)
(* The session: C23, C26                                                   *)
(***************************************************************************)
DividesByZero(instruction) ==
    /\ instruction.tag = "Calc"
    /\ instruction.op = "Div"
    /\ instruction.b = Constant(0)

\* A step that starts or ends with the playground open or one of its errors
\* shown: the committed runtime (accumulators, memory cells, stack,
\* instructions, control flow) is what it was.
C23_PlaygroundStep ==
    (PlaygroundState(app.state) \/ PlaygroundState(app'.state)) =>
        app'.runtime = app.runtime

\* A playground instruction that divides by zero.
C23_DivideByZeroStep ==
    (result'.op = "playground_execute" /\ DividesByZero(result'.arg)) =>
        /\ app'.state.tag = "RuntimeError"
        /\ app'.state.from_playground

NextIndex == app.runtime.control_flow.next_instruction_index
CallStack == app.runtime.control_flow.call_stack
Stepped == app.runtime.instructions[NextIndex + 1]

\* A step of the program on a Call or on a Return.
C26_CallReturnStep ==
    result'.op = "step" =>
        LET after == app'.runtime.control_flow
        IN  /\ Stepped.tag = "Call" =>
                /\ after.call_stack = Append(CallStack, NextIndex + 1)
                /\ after.next_instruction_index = Labels(app.runtime)[Stepped.label]
            /\ (Stepped.tag = "Return" /\ CallStack # <<>>) =>
                /\ after.next_instruction_index = CallStack[Len(CallStack)]
                /\ after.call_stack = SubSeq(CallStack, 1, Len(CallStack) - 1)
            /\ (Stepped.tag = "Return" /\ CallStack = <<>>) =>
                /\ app'.state.tag = "RuntimeError"
                /\ after.next_instruction_index = NextIndex

\* Every entry of the call stack is the index after a Call.
C26_AfterCalls ==
    (result.op \in {"start", "step"}) =>
        \A k \in DOMAIN CallStack :
            /\ CallStack[k] >= 1
            /\ app.runtime.instructions[CallStack[k]].tag = "Call"

\* C26: Call(label) at index i pushes i + 1 and jumps to the label, Return
\* pops the latest entry into next_instruction_index, so that nested calls
\* resume after their calls, last call first; a Return on an empty call stack
\* is a runtime error that leaves next_instruction_index alone.
C26_CallReturn == [][C26_CallReturnStep]_vars /\ []C26_AfterCalls

\* Two nested calls have returned: the program is back after the first Call,
\* with an empty call stack.
C26_Witness ==
    /\ result.op = "step"
    /\ app.runtime.instructions[1] = Call("f")
    /\ NextIndex = 1
    /\ CallStack = <<>>
    /\ app.state = StateRunning

\* A Return with nothing on the call stack.
C26_WitnessEmpty ==
    /\ result.op = "step"
    /\ app.state.tag = "RuntimeError"
    /\ ~app.state.from_playground
    /\ Stepped = Return
    /\ CallStack = <<>>

(***************************************************************************)
(* Breakpoints and the selected line: C22                                  *)
(***************************************************************************)
\* A call of set_start or of set has returned; what it was given is the index
\* of a line.
SetDone ==
    /\ Loaded
    /\ result.op \in {"set_start", "set"}
    /\ InRange(List.instructions, result.arg)

\* C22: set_start and set are given the index of the instruction about to
\* execute, and after them is_breakpoint tells whether that instruction
\* carries a flag, so that a session which asks is_breakpoint after set pauses
\* at a flagged instruction before it has executed.
C22_PauseBeforeExecution ==
    SetDone => (is_breakpoint(List) <=> List.instructions[result.arg + 1][Flag])

\* set_start(0), then set(1) after the first instruction has run: the second
\* line carries the only flag, and is_breakpoint answers for the first.
C22_Lagging ==
    /\ SetDone
    /\ result.op = "set"
    /\ result.arg = 1
    /\ List.last_index = 0
    /\ Flagged(List) = {1}
    /\ selected_line(List) = Some(0)
    /\ ~is_breakpoint(List)

(***************************************************************************)
(* The selection of InstructionListStates: C31 .. C35                      *)
(***************************************************************************)
\* The selections of the two lists.
Highlight(list) == list.instruction_list_state.selected
Marker(list) == list.breakpoint_list_state.selected

\* C31: is_breakpoint returns the flag of the selected line; when no line is
\* selected, or the selected index is outside the list, it returns false and
\* does not fail; breakpoints_set returns true exactly when some line carries
\* a flag.
C31_Queries ==
    /\ (Loaded /\ result.op = "is_breakpoint") =>
            /\ result.res.ok
            /\ result.res.v <=>
                    /\ Highlight(List) # None
                    /\ Unwrap(Highlight(List)) \in Flagged(List)
            /\ ~LineSelected(List) => result.res.v = FALSE
    /\ (Loaded /\ result.op = "breakpoints_set") =>
            /\ result.res.ok
            /\ result.res.v <=> Flagged(List) # {}

\* is_breakpoint was asked with the line after the last one selected, while
\* another line carries a flag, and answered false.
C31_Witness ==
    /\ Loaded
    /\ result.op = "is_breakpoint"
    /\ Lines = 2
    /\ Highlight(List) = Some(2)
    /\ Flagged(List) = {1}
    /\ result.res.v = FALSE

C31_WitnessFlagged ==
    /\ Loaded
    /\ result.op = "is_breakpoint"
    /\ Highlight(List) = Some(1)
    /\ Flagged(List) = {1}
    /\ result.res.v = TRUE

C31_WitnessNoSelection ==
    /\ Loaded
    /\ result.op = "is_breakpoint"
    /\ Highlight(List) = None
    /\ Flagged(List) = {0}
    /\ result.res.v = FALSE

C31_WitnessBreakpointsSet ==
    /\ Loaded
    /\ result.op = "breakpoints_set"
    /\ Lines = 3
    /\ Flagged(List) = {2}
    /\ result.res.v = TRUE

\* C32: set_start(i) on a list that new has just made, with i the index of a
\* line of the list, selects line i in the instruction list and in the
\* breakpoint list.
C32_StartStep ==
    (/\ result.op = "new"
     /\ result'.op = "set_start"
     /\ InRange(List.instructions, result'.arg)) =>
        /\ Highlight(app'.instruction_list_states) = Some(result'.arg)
        /\ Marker(app'.instruction_list_states) = Some(result'.arg)

C32_StartSelected == [][C32_StartStep]_vars

\* set_start(2) on a list of three lines that nothing else has touched: the
\* first line is selected.
C32_FirstLine ==
    /\ Loaded
    /\ result.op = "set_start"
    /\ result.arg = 2
    /\ Lines = 3
    /\ List.last_index = 1
    /\ Highlight(List) = Some(0)
    /\ Marker(List) = Some(0)

\* A call of set: the line selected is last_index + 1 as it was before.
C33_SetStep ==
    (Loaded /\ result'.op = "set") =>
        LET after == app'.instruction_list_states
        IN  /\ Highlight(after) = Some(List.last_index + 1)
            /\ Marker(after) = Some(List.last_index + 1)
            /\ after.last_index = result'.arg - 1
            /\ after.current_index = result'.arg - 1

\* A call of set that follows a call of set.
C33_SetSetStep ==
    (Loaded /\ result.op = "set" /\ result'.op = "set") =>
        Highlight(app'.instruction_list_states) = Some(result.arg)

\* C33: set(idx) selects in both of its branches the line last_index + 1, with
\* last_index as it was before the call, and leaves last_index = current_index
\* = idx - 1; so after set(a) and then set(b) line a is highlighted, whether b
\* is a + 1 or not.
C33_SetLags == [][C33_SetStep /\ C33_SetSetStep]_vars

\* set(0) and then set(2), a jump: line 0 is highlighted.
C33_Witness ==
    /\ Loaded
    /\ result.op = "set"
    /\ result.arg = 2
    /\ List.last_index = 1
    /\ List.current_index = 1
    /\ Highlight(List) = Some(0)

\* set(1) and then set(2), no jump: line 1 is highlighted.
C33_WitnessNoJump ==
    /\ Loaded
    /\ result.op = "set"
    /\ result.arg = 2
    /\ Highlight(List) = Some(1)

\* The operations that move both lists.
SelectingOps ==
    {"set_start", "set", "force_set", "deselect", "set_next_visual", "set_prev_visual"}

C34_SelectStep ==
    (/\ Loaded
     /\ result'.op \in SelectingOps
     /\ Highlight(List) = Marker(List)) =>
        Highlight(app'.instruction_list_states) = Marker(app'.instruction_list_states)

C34_New == result.op = "new" => (Highlight(List) = None /\ Marker(List) = None)

\* C34: new leaves both lists without a selection, and each of set_start, set,
\* force_set, deselect, set_next_visual and set_prev_visual takes lists that
\* select the same line to lists that select the same line; so after any
\* sequence of them the two lists select the same line or both none.
C34_ListsAgree == [][C34_SelectStep]_vars /\ []C34_New

\* set_next_visual has moved both lists to the second line.
C34_Witness ==
    /\ Loaded
    /\ result.op = "set_next_visual"
    /\ Lines = 3
    /\ Highlight(List) = Some(1)
    /\ Marker(List) = Some(1)

C34_WitnessNone ==
    /\ Loaded
    /\ result.op = "deselect"
    /\ Highlight(List) = None
    /\ Marker(List) = None

\* A selection that is none or a line of a list of n lines.
Inside(selected, n) == selected = None \/ InRange([k \in 1..n |-> k], Unwrap(selected))

\* Where next and prev take a selection on a list of n lines.
NextOf(selected, n) ==
    IF selected = None THEN 0
    ELSE IF Unwrap(selected) = n - 1 THEN 0 ELSE Unwrap(selected) + 1
PrevOf(selected, n) ==
    IF selected = None THEN 0
    ELSE IF Unwrap(selected) = 0 THEN n - 1 ELSE Unwrap(selected) - 1

\* A call of set_next_visual or set_prev_visual on a list that is not empty.
C35_VisualStep ==
    (/\ Loaded
     /\ Lines >= 1
     /\ result'.op \in {"set_next_visual", "set_prev_visual"}) =>
        LET after == app'.instruction_list_states
            Of(sel) == IF result'.op = "set_next_visual"
                           THEN NextOf(sel, Lines) ELSE PrevOf(sel, Lines)
        IN  /\ result'.res.ok
            /\ Inside(Highlight(List), Lines) =>
                    /\ Highlight(after) = Some(Of(Highlight(List)))
                    /\ InRange(List.instructions, Unwrap(Highlight(after)))
            /\ Inside(Marker(List), Lines) =>
                    /\ Marker(after) = Some(Of(Marker(List)))
                    /\ InRange(List.instructions, Unwrap(Marker(after)))

\* set_next_visual and then set_prev_visual, with a line selected.
C35_RoundTrip ==
    (Loaded /\ Lines >= 1 /\ LineSelected(List)) =>
        \A overflow_checks \in BOOLEAN :
            LET next == set_next_visual(List, overflow_checks)
            IN  /\ next.ok
                /\ set_prev_visual(next.v, overflow_checks).ok
                /\ Highlight(set_prev_visual(next.v, overflow_checks).v) = Highlight(List)
                /\ Inside(Marker(List), Lines) /\ Marker(List) # None =>
                        Marker(set_prev_visual(next.v, overflow_checks).v) = Marker(List)

\* C35: on a list of n >= 1 lines, set_next_visual and set_prev_visual take a
\* selection inside 0..n-1 to one inside 0..n-1: next from n-1 selects 0, prev
\* from 0 selects n-1, and either one from no selection selects 0; with a line
\* selected, set_next_visual and then set_prev_visual select that line again.
C35_Wraps == [][C35_VisualStep]_vars /\ []C35_RoundTrip

\* set_prev_visual has left the last of three lines selected.
C35_Witness ==
    /\ Loaded
    /\ result.op = "set_prev_visual"
    /\ Lines = 3
    /\ Highlight(List) = Some(2)
    /\ Marker(List) = Some(2)

\* set_next_visual has left the first line selected.
C35_WitnessNext ==
    /\ Loaded
    /\ result.op = "set_next_visual"
    /\ Lines = 2
    /\ Highlight(List) = Some(0)

(***************************************************************************)
(* The label table across builder calls: C36, C37, C38                     *)
(***************************************************************************)
\* C36: a build_instructions that returns an error leaves the instructions and
\* the label table of the builder as they were before the call, so that no
\* later build() joins the instructions of an earlier input with the labels
\* of a rejected one.
C36_FailedStep ==
    (result'.op = "build_instructions" /\ ~result'.res.ok) =>
        /\ instructions' = instructions
        /\ control_flow'.instruction_labels = control_flow.instruction_labels

C36_AtomicOnFailure == [][C36_FailedStep]_vars

\* A blank line was accepted, two blank lines and `l1: foo bar` were rejected,
\* and the builder holds the one Noop with l1 at index 2.
C36_Mixed ==
    /\ result.op = "build_instructions"
    /\ Source = << <<>>, <<>>, <<"l1", ":", " ", "foo", " ", "bar">> >>
    /\ ~result.res.ok
    /\ instructions = Some(<<Noop>>)
    /\ control_flow.instruction_labels = ("l1" :> 2)

\* C37: in every Runtime build() returns, every label of the label table maps
\* to an index from 0 to the number of instructions, that number included.
C37_LabelsInRange ==
    BuiltOk =>
        \A l \in DOMAIN Built.control_flow.instruction_labels :
            Built.control_flow.instruction_labels[l] \in 0..Len(Built.instructions)

\* A Runtime of one instruction whose label l1 stands at index 2.
C37_Dangling ==
    /\ BuiltOk
    /\ Built.instructions = <<Noop>>
    /\ ContainsKey(Built.control_flow.instruction_labels, "l1")
    /\ Built.control_flow.instruction_labels["l1"] = 2
    /\ Built.control_flow.instruction_labels["END"] = 1

\* The labels the lines of an input define, as their author reads them.
LabelsOf(input) ==
    {ReplaceColon(Words(input[k])[1]) : k \in {j \in DOMAIN input : StartsWithLabel(input[j])}}

\* An input in which every line parses and no label is defined twice, main and
\* MAIN counting as one.
Accepted(input) ==
    /\ \A k \in DOMAIN input : Parses(input[k]) /\ ~Redefines(input, k)
    /\ ~(MainLabels \subseteq LabelsOf(input))

C38_BuildInstructionsStep ==
    result'.op = "build_instructions" =>
        LET input == result'.arg
            cf == control_flow'
        IN  /\ Accepted(input) => result'.res.ok
            /\ result'.res.ok =>
                    /\ DOMAIN cf.instruction_labels = LabelsOf(input)
                    /\ \A k \in DOMAIN input :
                            StartsWithLabel(input[k]) =>
                                cf.instruction_labels[ReplaceColon(Words(input[k])[1])] = k - 1
                    /\ cf.next_instruction_index = 0
                    /\ cf.initial_instruction = 0
                    /\ cf.call_stack = <<>>

NoEntryChanged(manager) ==
    /\ \A id \in DOMAIN manager.accumulators : ~manager.accumulators[id][2]
    /\ \A l \in DOMAIN manager.memory_cells : ~manager.memory_cells[l][2]
    /\ \A i \in DOMAIN manager.index_memory_cells : ~manager.index_memory_cells[i][2]
    /\ IsSome(manager.gamma) => ~Unwrap(manager.gamma)[2]

\* After the update the entry of a register holds what the register shows
\* now, and is flagged exactly when there was no entry before or the entry
\* held something else.
Follows(before, after, key, shown) ==
    /\ ContainsKey(after, key)
    /\ after[key][1] = shown
    /\ after[key][2] <=> (~ContainsKey(before, key) \/ before[key][1] # shown)

\* A call of update.
C39_UpdateStep ==
    result'.op = "update" =>
        LET before == app.memory_lists_manager
            after == app'.memory_lists_manager
            args == app.runtime.runtime_args
        IN  /\ app'.runtime = app.runtime
            /\ \A id \in DOMAIN args.accumulators :
                    Follows(before.accumulators, after.accumulators, id,
                            AccumulatorDisplay(args.accumulators[id]))
            /\ \A l \in DOMAIN args.memory_cells :
                    Follows(before.memory_cells, after.memory_cells, l,
                            MemoryCellDisplay(args.memory_cells[l]))
            /\ \A i \in DOMAIN args.index_memory_cells :
                    Follows(before.index_memory_cells, after.index_memory_cells, i,
                            IndexMemoryCellDisplay(i, args.index_memory_cells[i]))
            /\ IsSome(args.gamma) =>
                    /\ IsSome(after.gamma)
                    /\ Unwrap(after.gamma)[1] = Unwrap(args.gamma)
                    /\ Unwrap(after.gamma)[2] <=>
                            (~IsSome(before.gamma) \/ Unwrap(before.gamma)[1] # Unwrap(args.gamma))

\* A call of update that follows a call of update.
C39_SecondUpdateStep ==
    (result.op = "update" /\ result'.op = "update") =>
        NoEntryChanged(app'.memory_lists_manager)

C39_WitnessIndexed ==
    /\ result.op = "update"
    /\ ContainsKey(app.memory_lists_manager.index_memory_cells, 12)
    /\ app.memory_lists_manager.index_memory_cells[12] = <<"[12]: 1", TRUE>>
    /\ app.memory_lists_manager.gamma = Some(<<Some(1), FALSE>>)

\* Every register has been written and displayed, and no entry is flagged.
C39_WitnessSettled ==
    /\ result.op = "update"
    /\ DOMAIN app.memory_lists_manager.memory_cells = {"h1", "h2"}
    /\ app.memory_lists_manager.memory_cells["h2"] = <<"h2: -1", FALSE>>
    /\ DOMAIN app.memory_lists_manager.index_memory_cells = {0, 1}
    /\ NoEntryChanged(app.memory_lists_manager)

=============================================================================
